---- MODULE Spec2Model ----
(***************************************************************************)
(* Parallel Research Kernels, C++11 device ports:                          *)
(*   - nstream-dpct.cc    STREAM triad  A += B + scalar * C                *)
(*   - stencil-dpcpp.cc   stencil driver on a 2D grid                      *)
(*   - stencil_vector.hpp the star/grid stencil kernels of radius 1..5     *)
(*                                                                         *)
(* Four state machines share the variables below:                          *)
(*   SpecTriadKernel    one launch of nstream / nstream2, unit by unit     *)
(*   SpecTriadMain      main() of nstream-dpct.cc                          *)
(*   SpecStencilKernel  one call of a stencil kernel, cell by cell         *)
(*   SpecStencilMain    main() of stencil-dpcpp.cc                         *)
(* (SpecStencilLong is SpecStencilMain started with a long run.)           *)
(*                                                                         *)
(* Arithmetic.  The triad works on small integers, which double represents *)
(* exactly.  Grid values are exact decimals with 15 fractional digits, so  *)
(* the coefficients are the decimal numbers written in the tables and no   *)
(* binary rounding is modelled.                                            *)
(***************************************************************************)
EXTENDS Integers, Sequences, FiniteSets, TLC

(***************************************************************************)
(* Bounds of the model.                                                    *)
(***************************************************************************)
\* width of unsigned int in the model (32 in the build)
UIntBits == 9
\* array lengths of the small triad launches
MaxLen == 3
\* work-groups and work-items per group of the small triad launches
MaxGroups == 2
MaxLocal == 2
\* the kernel model stops once an index has been updated this often
VisitCap == 2
\* grid dimensions of a kernel call run from 2r+1 to 2r+1+MaxExtra
MaxExtra == 2
\* tile sizes of a kernel call
MaxTile == 4
\* width of size_t in the model (64 in the build)
SizeBits == 16
\* <array dimension> arguments of the stencil run up to this
MaxGrid == 13
\* <# iterations> of the long stencil runs
LongIterations == 6250
\* the same two bounds where the doubles are followed
MaxExtra64 == 1
MaxTile64 == 2
\* stencil command lines have up to MaxStencilArgc - 1 arguments
MaxStencilArgc == 6
\* command lines have up to MaxArgc - 1 arguments
MaxArgc == 5
\* <# iterations> and <vector length> arguments run up to these
MaxIterations == 2
MaxLength == 3

UIntMod == 2^UIntBits

\* INT_MAX of the build: int has 32 bits
IntMax == 2147483647

(***************************************************************************)
(* State.                                                                  *)
(***************************************************************************)
VARIABLES
  \* ---- one triad launch ----
  kernel,       \* "nstream" or "nstream2"
  n,            \* array length (triad) or grid dimension (stencil)
  scalar,
  A, B, C,      \* device arrays d_A, d_B, d_C, indexed 0..n-1
  groupRange,   \* item_ct1.get_group_range(2)
  localRange,   \* item_ct1.get_local_range().get(2)
  upc,          \* per unit: "start", "loop" or "done"
  ui,           \* per unit: the loop variable i of nstream2
  interleave,   \* TRUE: units interleave freely; FALSE: one unit after another
  writes,       \* per index of A: number of updates in this launch
  writers,      \* per index of A: the units that updated it in this launch
  stray,        \* indices outside 0..n-1 that a unit accessed
  A0,           \* A before the launch
  Aref,         \* what nstream, launched with n units, makes of A0
  \* ---- main() of either driver ----
  argc, argv,   \* argv[0..argc-1] are strings, argv[argc] is the null pointer
  argRead,      \* positions of argv that main has read
  pc,           \* position of main
  iterations,
  iter,         \* the loop variable of the timed loop
  timer,        \* "idle", "running" or "stopped"
  kernels,      \* kernel applications completed
  timed,        \* kernel applications completed while the timer was running
  exitCode,     \* -1 while running
  output,       \* what has been printed
  outstanding,  \* the device operations the last step of main had submitted
                \* and not yet waited for, where they were most
  \* ---- main() of nstream-dpct.cc ----
  length,
  grid_stride,
  h_A,
  ar, asum,
  \* ---- stencil ----
  star,         \* TRUE: star kernels, FALSE: grid kernels
  radius,
  tile_size,    \* t of the kernel, tile_size of the driver
  in, out,      \* the grids, indexed 0..n*n-1, row-major; out holds the
                \* exact value of what the kernels add up
  out64,        \* out as binary64 arithmetic leaves it (SpecStencilKernel64)
  kpc,          \* position of a kernel call: "idle", "run", "done", "fault"
  it, jt, ci, cj,  \* loop variables it, jt, i, j of the kernel
  visits,       \* per cell: number of updates in this call
  in0, out0,    \* the grids before the call
  norm,         \* the sum of |out| over the interior that main computes
  stencil       \* the kernel main has selected: "nothing", "star1" .. "star5"

launchVars == <<kernel, n, scalar, groupRange, localRange, interleave>>
unitVars == <<upc, ui, writes, writers, stray, A0, Aref>>
mainVars == <<argc, argv, argRead, pc, iterations, iter, timer, kernels, timed,
              exitCode, output, outstanding>>
triadMainVars == <<length, grid_stride, h_A, ar, asum>>
stencilVars == <<star, radius, tile_size, in, out, kpc, it, jt, ci, cj,
                 visits, in0, out0, norm, out64, stencil>>

vars == <<launchVars, A, B, C, unitVars, mainVars, triadMainVars, stencilVars>>

\* values of the variables a state machine does not use
NoMain ==
  /\ argc = 0 /\ argv = <<>> /\ argRead = {} /\ pc = "none" /\ iterations = 0
  /\ iter = 0 /\ timer = "idle" /\ kernels = 0 /\ timed = 0 /\ exitCode = -1
  /\ output = {} /\ outstanding = {}
NoTriadMain ==
  length = 0 /\ grid_stride = FALSE /\ h_A = <<>> /\ ar = 0 /\ asum = 0
NoTriad ==
  /\ kernel = "none" /\ scalar = 0 /\ A = <<>> /\ B = <<>> /\ C = <<>>
  /\ groupRange = 0 /\ localRange = 0 /\ interleave = FALSE
NoUnits ==
  upc = <<>> /\ ui = <<>> /\ writes = <<>> /\ writers = <<>> /\ stray = {} /\ A0 = <<>> /\ Aref = <<>>
NoStencil ==
  /\ star = TRUE /\ radius = 0 /\ tile_size = 0 /\ in = <<>> /\ out = <<>>
  /\ kpc = "idle" /\ it = 0 /\ jt = 0 /\ ci = 0 /\ cj = 0 /\ visits = <<>>
  /\ in0 = <<>> /\ out0 = <<>> /\ norm = <<>> /\ out64 = <<>>
  /\ stencil = "none"

(***************************************************************************)
(* Triad kernels (nstream-dpct.cc).                                        *)
(***************************************************************************)
Units == (0 .. groupRange - 1) \X (0 .. localRange - 1)

\* item_ct1.get_group(2) * item_ct1.get_local_range().get(2) + item_ct1.get_local_id(2)
GlobalId(g, l, L) == g * L + l

InRangeInclusive(i, len) == i <= len

\* the bounds guard of both kernels
InRange(i, len) == i < len

\* A[i] += B[i] + scalar * C[i]
TriadUpdate(arr, b, c, s, i) ==
  IF i \in DOMAIN arr THEN [arr EXCEPT ![i] = @ + (b[i] + s * c[i])] ELSE arr

\* the direct-mapping kernel, executed by unit (g, l)
nstream(len, s, arr, b, c, g, l, L) ==
  LET i == GlobalId(g, l, L)
  IN  IF InRange(i, len) THEN TriadUpdate(arr, b, c, s, i) ELSE arr

\* unsigned int i = <global id>
StrideStart(g, l, L) == GlobalId(g, l, L) % UIntMod

\* i += get_local_range * get_group_range, in unsigned int
StrideNext(i, L, G) == (i + L * G) % UIntMod

\* the grid-strided kernel, executed by unit (g, l) from loop variable i on
RECURSIVE nstream2Loop(_, _, _, _, _, _, _, _)
nstream2Loop(len, s, arr, b, c, i, L, G) ==
  IF InRange(i, len)
  THEN nstream2Loop(len, s, TriadUpdate(arr, b, c, s, i), b, c,
                    StrideNext(i, L, G), L, G)
  ELSE arr

nstream2(len, s, arr, b, c, g, l, L, G) ==
  nstream2Loop(len, s, arr, b, c, StrideStart(g, l, L), L, G)

\* a whole launch: every unit of the nd_range, units lo..hi in index order
\* (the test on DOMAIN has the array of the units lo..mid computed before
\* the units mid+1..hi start)
Launch(k, len, s, arr, b, c, L, G) ==
  LET RECURSIVE Range(_, _, _)
      Range(a, lo, hi) ==
        IF lo > hi \/ DOMAIN a = {} THEN a
        ELSE IF lo = hi
        THEN IF k = "nstream2"
             THEN nstream2(len, s, a, b, c, lo \div L, lo % L, L, G)
             ELSE nstream(len, s, a, b, c, lo \div L, lo % L, L)
        ELSE LET mid == (lo + hi) \div 2
             IN  Range(Range(a, lo, mid), mid + 1, hi)
  IN  Range(arr, 0, L * G - 1)

(***************************************************************************)
(* SpecTriadKernel: one launch, one step per unit (nstream) or per loop    *)
(* iteration of a unit (nstream2).                                         *)
(***************************************************************************)
InitTriadKernel ==
  /\ kernel \in {"nstream", "nstream2"}
  /\ \/ /\ n \in 1 .. MaxLen
        /\ groupRange \in 1 .. MaxGroups
        /\ localRange \in 1 .. MaxLocal
        /\ interleave = TRUE
        /\ A \in {[i \in 0 .. n - 1 |-> 0], [i \in 0 .. n - 1 |-> i % 2]}
     \/ /\ n = UIntMod - 1
        /\ groupRange = 1
        /\ localRange = 2
        /\ interleave = FALSE
        /\ A = [i \in 0 .. n - 1 |-> 0]
  /\ scalar \in {2, 3}
  /\ B = [i \in 0 .. n - 1 |-> 2 + (i % 2)]
  /\ C = [i \in 0 .. n - 1 |-> 2 + (i % 3)]
  /\ upc = [u \in Units |-> "start"]
  /\ ui = [u \in Units |-> 0]
  /\ writes = [i \in 0 .. n - 1 |-> 0]
  /\ writers = [i \in 0 .. n - 1 |-> {}]
  /\ stray = {}
  /\ A0 = A
  /\ Aref = Launch("nstream", n, scalar, A, B, C, n, 1)
  /\ NoMain /\ NoTriadMain /\ NoStencil

\* a unit may take a step: any unit when they interleave, otherwise the unit a
\* loop is running in, or any unit when none is
MayRun(u) ==
  /\ upc[u] # "done"
  /\ ~\E i \in DOMAIN writes : writes[i] >= VisitCap
  /\ interleave \/ upc[u] = "loop" \/ ~\E v \in Units : upc[v] = "loop"

Touch(u, i) ==
  /\ writes' = IF i \in DOMAIN writes THEN [writes EXCEPT ![i] = @ + 1] ELSE writes
  /\ writers' = IF i \in DOMAIN writers THEN [writers EXCEPT ![i] = @ \cup {u}] ELSE writers
  /\ stray' = IF i \in DOMAIN A THEN stray ELSE stray \cup {i}

NstreamUnit(u) ==
  /\ kernel = "nstream"
  /\ MayRun(u)
  /\ LET i == GlobalId(u[1], u[2], localRange)
     IN  /\ A' = nstream(n, scalar, A, B, C, u[1], u[2], localRange)
         /\ IF InRange(i, n) THEN Touch(u, i) ELSE UNCHANGED <<writes, writers, stray>>
  /\ upc' = [upc EXCEPT ![u] = "done"]
  /\ UNCHANGED <<launchVars, B, C, ui, A0, Aref>>
  /\ UNCHANGED <<mainVars, triadMainVars, stencilVars>>

Nstream2Enter(u) ==
  /\ kernel = "nstream2"
  /\ MayRun(u)
  /\ upc[u] = "start"
  /\ ui' = [ui EXCEPT ![u] = StrideStart(u[1], u[2], localRange)]
  /\ upc' = [upc EXCEPT ![u] = "loop"]
  /\ UNCHANGED <<launchVars, A, B, C, writes, writers, stray, A0, Aref>>
  /\ UNCHANGED <<mainVars, triadMainVars, stencilVars>>

Nstream2Iterate(u) ==
  /\ kernel = "nstream2"
  /\ MayRun(u)
  /\ upc[u] = "loop"
  /\ InRange(ui[u], n)
  /\ A' = TriadUpdate(A, B, C, scalar, ui[u])
  /\ Touch(u, ui[u])
  /\ ui' = [ui EXCEPT ![u] = StrideNext(ui[u], localRange, groupRange)]
  /\ UNCHANGED <<launchVars, B, C, upc, A0, Aref>>
  /\ UNCHANGED <<mainVars, triadMainVars, stencilVars>>

Nstream2Exit(u) ==
  /\ kernel = "nstream2"
  /\ MayRun(u)
  /\ upc[u] = "loop"
  /\ ~InRange(ui[u], n)
  /\ upc' = [upc EXCEPT ![u] = "done"]
  /\ UNCHANGED <<launchVars, A, B, C, ui, writes, writers, stray, A0, Aref>>
  /\ UNCHANGED <<mainVars, triadMainVars, stencilVars>>

NextTriadKernel ==
  \E u \in Units :
    \/ NstreamUnit(u)
    \/ Nstream2Enter(u)
    \/ Nstream2Iterate(u)
    \/ Nstream2Exit(u)

SpecTriadKernel == InitTriadKernel /\ [][NextTriadKernel]_vars

\* launches of three work-groups of one work-item each over the longest array
\* an unsigned int can index, one unit after another
InitTriadWrap ==
  /\ kernel \in {"nstream", "nstream2"}
  /\ n = UIntMod - 1
  /\ groupRange = 3
  /\ localRange = 1
  /\ interleave = FALSE
  /\ A = [i \in 0 .. n - 1 |-> 0]
  /\ scalar \in {2, 3}
  /\ B = [i \in 0 .. n - 1 |-> 2 + (i % 2)]
  /\ C = [i \in 0 .. n - 1 |-> 2 + (i % 3)]
  /\ upc = [u \in Units |-> "start"]
  /\ ui = [u \in Units |-> 0]
  /\ writes = [i \in 0 .. n - 1 |-> 0]
  /\ writers = [i \in 0 .. n - 1 |-> {}]
  /\ stray = {}
  /\ A0 = A
  /\ Aref = Launch("nstream", n, scalar, A, B, C, n, 1)
  /\ NoMain /\ NoTriadMain /\ NoStencil

SpecTriadWrap == InitTriadWrap /\ [][NextTriadKernel]_vars

LaunchDone == \A u \in Units : upc[u] = "done"

Launched == groupRange * localRange

\* C1: one launch of nstream with at least n units sets A[i] to
\* A[i] + B[i] + scalar*C[i] for every i in 0..n-1, updates each such index
\* exactly once (never twice while the launch runs), and its units with an
\* index >= n access nothing.
C1_DirectTriad ==
  (kernel = "nstream" /\ Launched >= n) =>
    /\ stray = {}
    /\ \A i \in 0 .. n - 1 :
         /\ writes[i] <= 1
         /\ A[i] = IF writes[i] = 1 THEN A0[i] + B[i] + scalar * C[i] ELSE A0[i]
         /\ LaunchDone => writes[i] = 1
    /\ \A u \in Units :
         (upc[u] = "done" /\ GlobalId(u[1], u[2], localRange) < n)
           => writes[GlobalId(u[1], u[2], localRange)] = 1

C1_Witness ==
  /\ kernel = "nstream"
  /\ LaunchDone
  /\ Launched > n
  /\ n > 1
  /\ \A i \in 0 .. n - 1 : A[i] = A0[i] + B[i] + scalar * C[i] /\ A[i] # A0[i]

DigitChars == <<"0", "1", "2", "3", "4", "5", "6", "7", "8", "9">>
IsDigit(ch) == \E d \in 1 .. 10 : DigitChars[d] = ch
DigitValue(ch) == (CHOOSE d \in 1 .. 10 : DigitChars[d] = ch) - 1

\* the decimal numeral of k >= 0
RECURSIVE Numeral(_)
Numeral(k) ==
  IF k < 10 THEN <<DigitChars[k + 1]>>
  ELSE Append(Numeral(k \div 10), DigitChars[(k % 10) + 1])

\* the decimal numeral of an int
IntNumeral(k) == IF k < 0 THEN <<"-">> \o Numeral(0 - k) ELSE Numeral(k)

\* std::atoi: an optional sign, then the digits up to the first other character
atoi(str) ==
  LET RECURSIVE Digits(_, _)
      Digits(k, acc) ==
        IF k > Len(str) \/ ~IsDigit(str[k]) THEN acc
        ELSE Digits(k + 1, acc * 10 + DigitValue(str[k]))
  IN  IF str = <<>> THEN 0
      ELSE IF str[1] = "-" THEN 0 - Digits(2, 0)
      ELSE IF str[1] = "+" THEN Digits(2, 0)
      ELSE Digits(1, 0)

\* prk::parse_boolean
parse_boolean(str) ==
  str \in {<<"1">>, <<"t">>, <<"t", "r", "u", "e">>, <<"y">>, <<"y", "e", "s">>}

\* prk::divceil
divceil(a, b) == (a + b - 1) \div b

\* const int blockSize = 256
blockSize == 256

\* the position of argv that main parses into grid_stride
GridStrideArg == 4

\* the null pointer that ends argv
NullPtr == <<"(null)">>

LoopRunsExclusive(k, its) == k < its

\* for (int iter = 0; iter<=iterations; iter++)
LoopRuns(k, its) == k <= its

IterationsRejectedBelowZero(its) == its < 0

\* if (iterations < 1) throw
IterationsRejected(its) == its < 1

TimerStartsAtOnce(k) == k = 0

\* if (iter==1) nstream_time = prk::wtime(), and the same for stencil_time
TimerStarts(k) == k = 1

\* the expected checksum: ar += br + scalar * cr, iterations+1 times, then
\* ar *= length
ExpectedChecksum(its, s, len) ==
  LET br == 2
      cr == 2
      RECURSIVE Loop(_, _)
      Loop(acc, k) == IF k <= its THEN Loop(acc + (br + s * cr), k + 1) ELSE acc
  IN  Loop(0, 0) * len

Abs(x) == IF x < 0 THEN 0 - x ELSE x

\* asum += std::fabs(h_A[i]) for i = 0 .. length-1
RECURSIVE SumAbs(_, _, _)
SumAbs(arr, k, len) ==
  IF k < len THEN Abs(arr[k]) + SumAbs(arr, k + 1, len) ELSE 0

\* std::fabs(ar - asum) / asum > epsilon with epsilon = 1.e-8; 0/0 is a NaN,
\* which compares false
TriadFails(expected, observed) ==
  IF observed = 0 THEN expected # 0
  ELSE Abs(expected - observed) > Abs(observed) \div 100000000

\* the words argv[k] is drawn from
ArgChoices(k) ==
  IF k = 0 THEN {<<"n", "s", "t", "r", "e", "a", "m">>}
  ELSE IF k = 1
  THEN {Numeral(i) : i \in 0 .. MaxIterations} \cup {Numeral(10), <<"-", "1">>}
  ELSE IF k = 2 THEN {Numeral(i) : i \in 0 .. MaxLength} \cup {<<"x">>}
  ELSE {<<"0">>, <<"1">>, <<"t", "r", "u", "e">>, <<"f", "a", "l", "s", "e">>}

InitTriadMain ==
  /\ argc \in 1 .. MaxArgc
  /\ \E av \in [0 .. argc - 1 -> UNION {ArgChoices(k) : k \in 0 .. 3}] :
       /\ \A k \in 0 .. argc - 1 : av[k] \in ArgChoices(k)
       /\ argv = [k \in 0 .. argc |-> IF k < argc THEN av[k] ELSE NullPtr]
  /\ argRead = {}
  /\ pc = "parse"
  /\ iterations = 0 /\ iter = 0
  /\ timer = "idle" /\ kernels = 0 /\ timed = 0
  /\ exitCode = -1 /\ output = {} /\ outstanding = {}
  /\ NoTriadMain
  /\ kernel = "none" /\ n = 0 /\ scalar = 0
  /\ A = <<>> /\ B = <<>> /\ C = <<>>
  /\ groupRange = 0 /\ localRange = 0 /\ interleave = FALSE
  /\ NoUnits /\ NoStencil

\* the try block of main and its catch
TriadUsage ==
  /\ pc = "parse"
  /\ outstanding' = {}
  /\ argc < 3
  /\ pc' = "exit" /\ exitCode' = 1 /\ output' = output \cup {"usage"}
  /\ UNCHANGED <<argc, argv, argRead, iterations, iter, timer, kernels, timed>>
  /\ UNCHANGED <<launchVars, A, B, C, unitVars, triadMainVars, stencilVars>>

TriadBadIterations ==
  /\ pc = "parse"
  /\ outstanding' = {}
  /\ argc >= 3
  /\ IterationsRejected(atoi(argv[1]))
  /\ iterations' = atoi(argv[1])
  /\ argRead' = argRead \cup {1}
  /\ pc' = "exit" /\ exitCode' = 1 /\ output' = output \cup {"bad iterations"}
  /\ UNCHANGED <<argc, argv, iter, timer, kernels, timed>>
  /\ UNCHANGED <<launchVars, A, B, C, unitVars, triadMainVars, stencilVars>>

TriadBadLength ==
  /\ pc = "parse"
  /\ outstanding' = {}
  /\ argc >= 3
  /\ ~IterationsRejected(atoi(argv[1]))
  /\ atoi(argv[2]) <= 0
  /\ iterations' = atoi(argv[1])
  /\ length' = atoi(argv[2])
  /\ argRead' = argRead \cup {1, 2}
  /\ pc' = "exit" /\ exitCode' = 1 /\ output' = output \cup {"bad length"}
  /\ UNCHANGED <<argc, argv, iter, timer, kernels, timed>>
  /\ UNCHANGED <<grid_stride, h_A, ar, asum>>
  /\ UNCHANGED <<launchVars, A, B, C, unitVars, stencilVars>>

\* the arguments are accepted; grid_stride = (argc>3) ?
\* prk::parse_boolean(std::string(argv[4])) : false
TriadParsed ==
  /\ pc = "parse"
  /\ outstanding' = {}
  /\ argc >= 3
  /\ ~IterationsRejected(atoi(argv[1]))
  /\ atoi(argv[2]) > 0
  /\ iterations' = atoi(argv[1])
  /\ length' = atoi(argv[2])
  /\ IF argc > 3
     THEN /\ argRead' = argRead \cup {1, 2, GridStrideArg}
          /\ GridStrideArg < argc
          /\ grid_stride' = parse_boolean(argv[GridStrideArg])
     ELSE /\ argRead' = argRead \cup {1, 2}
          /\ grid_stride' = FALSE
  /\ pc' = "alloc"
  /\ UNCHANGED <<argc, argv, iter, timer, kernels, timed, exitCode, output>>
  /\ UNCHANGED <<h_A, ar, asum>>
  /\ UNCHANGED <<launchVars, A, B, C, unitVars, stencilVars>>

\* std::string(argv[4]) of a position that holds no string: the behaviour is
\* undefined; the run crashes or goes on with either value of grid_stride
TriadParsedNull ==
  /\ pc = "parse"
  /\ outstanding' = {}
  /\ argc >= 3
  /\ ~IterationsRejected(atoi(argv[1]))
  /\ atoi(argv[2]) > 0
  /\ argc > 3
  /\ GridStrideArg >= argc
  /\ iterations' = atoi(argv[1])
  /\ length' = atoi(argv[2])
  /\ argRead' = argRead \cup {1, 2, GridStrideArg}
  /\ \/ /\ pc' = "crashed"
        /\ UNCHANGED grid_stride
     \/ /\ pc' = "alloc"
        /\ grid_stride' \in BOOLEAN
  /\ UNCHANGED <<argc, argv, iter, timer, kernels, timed, exitCode, output>>
  /\ UNCHANGED <<h_A, ar, asum>>
  /\ UNCHANGED <<launchVars, A, B, C, unitVars, stencilVars>>

\* dimBlock, dimGrid, the host arrays and their copies on the device
TriadAllocate ==
  /\ pc = "alloc"
  /\ outstanding' = {"memcpy d_C"}
  /\ localRange' = blockSize
  /\ groupRange' = divceil(length, blockSize)
  /\ h_A' = [k \in 0 .. length - 1 |-> 0]
  /\ A' = [k \in 0 .. length - 1 |-> 0]
  /\ B' = [k \in 0 .. length - 1 |-> 2]
  /\ C' = [k \in 0 .. length - 1 |-> 2]
  /\ scalar' = 3
  /\ n' = length % UIntMod
  /\ iter' = 0
  /\ pc' = "loop"
  /\ UNCHANGED <<kernel, interleave, unitVars, stencilVars>>
  /\ UNCHANGED <<argc, argv, argRead, iterations, timer, kernels, timed,
                 exitCode, output>>
  /\ UNCHANGED <<length, grid_stride, ar, asum>>

\* one body of the loop: the timer starts at iter 1, the kernel is submitted
\* and waited for
TriadIterate ==
  /\ pc = "loop"
  /\ outstanding' = {"kernel"}
  /\ LoopRuns(iter, iterations)
  /\ kernel' = IF grid_stride THEN "nstream2" ELSE "nstream"
  /\ A' = Launch(kernel', n, scalar, A, B, C, localRange, groupRange)
  /\ timer' = IF TimerStarts(iter) THEN "running" ELSE timer
  /\ kernels' = kernels + 1
  /\ timed' = IF timer' = "running" THEN timed + 1 ELSE timed
  /\ iter' = iter + 1
  /\ UNCHANGED <<n, scalar, groupRange, localRange, interleave, B, C>>
  /\ UNCHANGED <<argc, argv, argRead, pc, iterations, exitCode, output>>
  /\ UNCHANGED <<unitVars, triadMainVars, stencilVars>>

\* the loop ends: the timer stops and d_A is copied to h_A
TriadFinish ==
  /\ pc = "loop"
  /\ outstanding' = {"memcpy h_A"}
  /\ ~LoopRuns(iter, iterations)
  /\ timer' = "stopped"
  /\ h_A' = A
  /\ pc' = "verify"
  /\ UNCHANGED <<launchVars, A, B, C, unitVars, stencilVars>>
  /\ UNCHANGED <<argc, argv, argRead, iterations, iter, kernels, timed,
                 exitCode, output>>
  /\ UNCHANGED <<length, grid_stride, ar, asum>>

\* the checksums and the verdict
TriadVerify ==
  /\ pc = "verify"
  /\ outstanding' = {}
  /\ ar' = ExpectedChecksum(iterations, scalar, length)
  /\ asum' = SumAbs(h_A, 0, length)
  /\ IF TriadFails(ar', asum')
     THEN /\ output' = output \cup {"failed validation"}
          /\ exitCode' = 1
     ELSE /\ output' = output \cup {"validates", "rate"}
          /\ exitCode' = 0
  /\ pc' = "exit"
  /\ UNCHANGED <<launchVars, A, B, C, unitVars, stencilVars>>
  /\ UNCHANGED <<argc, argv, argRead, iterations, iter, timer, kernels, timed>>
  /\ UNCHANGED <<length, grid_stride, h_A>>

NextTriadMain ==
  \/ TriadUsage
  \/ TriadBadIterations
  \/ TriadBadLength
  \/ TriadParsed
  \/ TriadParsedNull
  \/ TriadAllocate
  \/ TriadIterate
  \/ TriadFinish
  \/ TriadVerify

SpecTriadMain == InitTriadMain /\ [][NextTriadMain]_vars

\* main has accepted its arguments
Accepted == pc \in {"alloc", "loop", "verify"} \/ (pc = "exit" /\ kernels > 0)

\* C3: for iterations >= 1 and length > 0 the triad driver applies the kernel
\* iterations+1 times to A = 0 with B = C = 2 and scalar = 3: every A[i] is 8
\* per application, 8*(iterations+1) at the end, the observed checksum equals
\* the expected length*(iterations+1)*8 (88000 for 10 and 1000), and the run
\* validates.
C3_TriadValidates ==
  /\ ExpectedChecksum(10, 3, 1000) = 88000
  /\ (Accepted /\ pc # "alloc") =>
       /\ iterations >= 1 /\ length > 0 /\ scalar = 3
       /\ kernels = iter /\ kernels <= iterations + 1
       /\ \A k \in 0 .. length - 1 : A[k] = 8 * kernels /\ B[k] = 2 /\ C[k] = 2
       /\ pc # "loop" =>
            /\ kernels = iterations + 1
            /\ \A k \in 0 .. length - 1 : h_A[k] = 8 * (iterations + 1)
       /\ pc = "exit" =>
            /\ asum = length * (iterations + 1) * 8
            /\ ar = asum
            /\ exitCode = 0
            /\ "validates" \in output

C3_Witness ==
  /\ pc = "exit" /\ exitCode = 0
  /\ iterations = 10 /\ length = 3
  /\ kernels = 11
  /\ asum = 264 /\ ar = 264
  /\ \A k \in 0 .. 2 : h_A[k] = 88

\* C4: when a third argument is given, grid_stride is the boolean value of
\* that third argument, and main reads no position of argv that was not
\* supplied.
C4_ThirdArgument ==
  /\ argRead \subseteq 0 .. argc - 1
  /\ pc # "crashed"
  /\ (Accepted /\ argc > 3) => grid_stride = parse_boolean(argv[3])

(***************************************************************************)
(* Exact decimal arithmetic for the grids.  A number is <<a, f1, f2, f3>>  *)
(* with 0 <= f1, f2, f3 < 10^5 and stands for                              *)
(*   a + f1 / 10^5 + f2 / 10^10 + f3 / 10^15,                              *)
(* so -0.5 is <<-1, 50000, 0, 0>>.  Every number has one such form.        *)
(***************************************************************************)
DecBase == 10^5

\* carries from the last group to the first
Carry(a, x, y, z) ==
  LET y1 == y + (z \div DecBase)
      x1 == x + (y1 \div DecBase)
  IN  <<a + (x1 \div DecBase), x1 % DecBase, y1 % DecBase, z % DecBase>>

NumOf(v) == <<v, 0, 0, 0>>
NumAdd(p, q) == Carry(p[1] + q[1], p[2] + q[2], p[3] + q[3], p[4] + q[4])
NumNeg(p) == Carry(0 - p[1], 0 - p[2], 0 - p[3], 0 - p[4])
NumSub(p, q) == NumAdd(p, NumNeg(q))
\* the product of the number p and the integer v
NumTimes(p, v) == Carry(p[1] * v, p[2] * v, p[3] * v, p[4] * v)
NumLess(p, q) ==
  \/ p[1] < q[1]
  \/ p[1] = q[1] /\ p[2] < q[2]
  \/ p[1] = q[1] /\ p[2] = q[2] /\ p[3] < q[3]
  \/ p[1] = q[1] /\ p[2] = q[2] /\ p[3] = q[3] /\ p[4] < q[4]
NumAbs(p) == IF p[1] < 0 THEN NumNeg(p) ELSE p
NumZero == NumOf(0)

(***************************************************************************)
(* binary64 arithmetic: what the operators + and * of double compute, each  *)
(* result rounded to the nearest double, ties to even.  The numbers of the *)
(* model are far from the overflow and underflow thresholds.               *)
(***************************************************************************)
\* a nonnegative integer of any size is its digits in base LimbBase, least
\* significant first, without leading zeros
LimbBits == 15
LimbBase == 2^LimbBits
\* bits of the significand of a double
Precision == 53

Limb(x, k) == IF k <= Len(x) THEN x[k] ELSE 0

RECURSIVE BigTrim(_)
BigTrim(x) ==
  IF x # <<>> /\ x[Len(x)] = 0 THEN BigTrim(SubSeq(x, 1, Len(x) - 1)) ELSE x

BigAdd(x, y) ==
  LET RECURSIVE From(_, _, _)
      From(k, carry, acc) ==
        IF k > Len(x) /\ k > Len(y)
        THEN IF carry = 0 THEN acc ELSE Append(acc, carry)
        ELSE LET s == Limb(x, k) + Limb(y, k) + carry
             IN  From(k + 1, s \div LimbBase, Append(acc, s % LimbBase))
  IN  From(1, 0, <<>>)

\* x - y for x >= y
BigSub(x, y) ==
  LET RECURSIVE From(_, _, _)
      From(k, borrow, acc) ==
        IF k > Len(x) THEN BigTrim(acc)
        ELSE LET s == Limb(x, k) - Limb(y, k) - borrow
             IN  From(k + 1, IF s < 0 THEN 1 ELSE 0, Append(acc, s % LimbBase))
  IN  From(1, 0, <<>>)

\* -1, 0 or 1 as x is below, equal to or above y
BigCmp(x, y) ==
  LET RECURSIVE From(_)
      From(k) ==
        IF k = 0 THEN 0
        ELSE IF Limb(x, k) < Limb(y, k) THEN 0 - 1
        ELSE IF Limb(x, k) > Limb(y, k) THEN 1
        ELSE From(k - 1)
  IN  From(IF Len(x) > Len(y) THEN Len(x) ELSE Len(y))

\* x times a number v below LimbBase
BigTimes(x, v) ==
  LET RECURSIVE From(_, _, _)
      From(k, carry, acc) ==
        IF k > Len(x)
        THEN IF carry = 0 THEN acc ELSE Append(acc, carry)
        ELSE LET s == x[k] * v + carry
             IN  From(k + 1, s \div LimbBase, Append(acc, s % LimbBase))
  IN  IF v = 0 THEN <<>> ELSE From(1, 0, <<>>)

\* x * 2^b
BigShl(x, b) ==
  IF x = <<>> THEN <<>>
  ELSE [i \in 1 .. b \div LimbBits |-> 0] \o BigTimes(x, 2^(b % LimbBits))

\* x \div 2^b
BigShr(x, b) ==
  LET r == b % LimbBits
      y == SubSeq(x, (b \div LimbBits) + 1, Len(x))
      RECURSIVE From(_, _)
      From(k, acc) ==
        IF k > Len(y) THEN BigTrim(acc)
        ELSE From(k + 1, Append(acc, (y[k] \div 2^r)
                                     + (Limb(y, k + 1) % 2^r) * 2^(LimbBits - r)))
  IN  IF b \div LimbBits >= Len(x) THEN <<>> ELSE From(1, <<>>)

\* the number of bits of x
BitLen(x) ==
  LET RECURSIVE BitsOf(_)
      BitsOf(v) == IF v = 0 THEN 0 ELSE 1 + BitsOf(v \div 2)
  IN  IF x = <<>> THEN 0 ELSE LimbBits * (Len(x) - 1) + BitsOf(x[Len(x)])

BigMul(x, y) ==
  LET RECURSIVE From(_, _)
      From(k, acc) ==
        IF k > Len(y) THEN acc
        ELSE From(k + 1, BigAdd(acc, [i \in 1 .. k - 1 |-> 0]
                                       \o BigTimes(x, y[k])))
  IN  BigTrim(From(1, <<>>))

BigOdd(x) == x # <<>> /\ x[1] % 2 = 1

\* a double is <<s, m, e>>, the number s * m * 2^e with s in {-1, 0, 1} and,
\* unless it is zero, m of exactly Precision bits
DZero == <<0, <<>>, 0>>

\* s * m * 2^e to the nearest binary64, ties to even
Round(s, m, e) ==
  LET len == BitLen(m)
  IN  IF len = 0 THEN DZero
      ELSE IF len <= Precision
      THEN <<s, BigShl(m, Precision - len), e - (Precision - len)>>
      ELSE LET d    == len - Precision
               q    == BigShr(m, d)
               rest == BigSub(m, BigShl(q, d))
               half == BigShl(<<1>>, d - 1)
               c    == BigCmp(rest, half)
               up   == c > 0 \/ (c = 0 /\ BigOdd(q))
               q1   == IF up THEN BigAdd(q, <<1>>) ELSE q
           IN  IF BitLen(q1) > Precision
               THEN <<s, BigShr(q1, 1), e + d + 1>>
               ELSE <<s, q1, e + d>>

DNeg(a) == <<0 - a[1], a[2], a[3]>>

DAdd(a, b) ==
  IF a[1] = 0 THEN b
  ELSE IF b[1] = 0 THEN a
  ELSE LET emin == IF a[3] < b[3] THEN a[3] ELSE b[3]
           ma   == BigShl(a[2], a[3] - emin)
           mb   == BigShl(b[2], b[3] - emin)
           c    == BigCmp(ma, mb)
       IN  IF a[1] = b[1] THEN Round(a[1], BigAdd(ma, mb), emin)
           ELSE IF c = 0 THEN DZero
           ELSE IF c > 0 THEN Round(a[1], BigSub(ma, mb), emin)
           ELSE Round(b[1], BigSub(mb, ma), emin)

DMul(a, b) ==
  IF a[1] = 0 \/ b[1] = 0 THEN DZero
  ELSE Round(a[1] * b[1], BigMul(a[2], b[2]), a[3] + b[3])

DOfInt(v) ==
  IF v = 0 THEN DZero
  ELSE Round(IF v < 0 THEN 0 - 1 ELSE 1,
             BigTrim(<<(IF v < 0 THEN 0 - v ELSE v) % LimbBase,
                       (IF v < 0 THEN 0 - v ELSE v) \div LimbBase>>), 0)

\* the double nearest to a decimal number: the binary expansion of m + p, p
\* a fraction, until m has Precision bits, then rounded by what is left of p
DOfNum(x) ==
  LET s == IF x[1] < 0 THEN 0 - 1 ELSE 1
      a == NumAbs(x)
      RECURSIVE Expand(_, _, _)
      Expand(m, p, e) ==
        LET twice == NumAdd(p, p)
        IN  IF BitLen(m) = Precision
            THEN Round(s, IF twice[1] = 1 /\ (twice # NumOf(1) \/ BigOdd(m))
                          THEN BigAdd(m, <<1>>) ELSE m, e)
            ELSE Expand(BigAdd(BigTimes(m, 2),
                               IF twice[1] = 1 THEN <<1>> ELSE <<>>),
                        <<0, twice[2], twice[3], twice[4]>>, e - 1)
  IN  IF a = NumZero THEN DZero
      ELSE IF a[2] = 0 /\ a[3] = 0 /\ a[4] = 0 THEN DOfInt(s * a[1])
      ELSE Expand(BigTrim(<<a[1]>>), <<0, a[2], a[3], a[4]>>, 0)

(***************************************************************************)
(* The stencil kernels (stencil_vector.hpp).                               *)
(***************************************************************************)
DecUnsigned(sgn, fa, fb, fc) == <<0, fa, fb, fc>>

\* a coefficient as written in a kernel: Dec(s, fa, fb, fc) is s times the
\* decimal fraction whose 15 digits are those of fa, fb and fc, five each, so
\* -0.0555555555556 is Dec(-1, 5555, 55555, 55600)
Dec(sgn, fa, fb, fc) ==
  IF sgn < 0 THEN NumNeg(<<0, fa, fb, fc>>) ELSE <<0, fa, fb, fc>>

\* The terms of out[i*n+j] += ... of each kernel, in the order written: the
\* term in[(i+di)*n+(j+dj)] * c is <<di, dj, c>>.
star1 ==
  <<
     <<0, -1, Dec(-1, 50000, 0, 0)>>,                \* -0.5
     <<-1, 0, Dec(-1, 50000, 0, 0)>>,                \* -0.5
     <<1, 0, Dec(1, 50000, 0, 0)>>,                  \* 0.5
     <<0, 1, Dec(1, 50000, 0, 0)>> >>                \* 0.5

star2 ==
  <<
     <<0, -2, Dec(-1, 12500, 0, 0)>>,                \* -0.125
     <<0, -1, Dec(-1, 25000, 0, 0)>>,                \* -0.25
     <<-2, 0, Dec(-1, 12500, 0, 0)>>,                \* -0.125
     <<-1, 0, Dec(-1, 25000, 0, 0)>>,                \* -0.25
     <<1, 0, Dec(1, 25000, 0, 0)>>,                  \* 0.25
     <<2, 0, Dec(1, 12500, 0, 0)>>,                  \* 0.125
     <<0, 1, Dec(1, 25000, 0, 0)>>,                  \* 0.25
     <<0, 2, Dec(1, 12500, 0, 0)>> >>                \* 0.125

star3 ==
  <<
     <<0, -3, Dec(-1, 5555, 55555, 55600)>>,         \* -0.0555555555556
     <<0, -2, Dec(-1, 8333, 33333, 33300)>>,         \* -0.0833333333333
     <<0, -1, Dec(-1, 16666, 66666, 67000)>>,        \* -0.166666666667
     <<-3, 0, Dec(-1, 5555, 55555, 55600)>>,         \* -0.0555555555556
     <<-2, 0, Dec(-1, 8333, 33333, 33300)>>,         \* -0.0833333333333
     <<-1, 0, Dec(-1, 16666, 66666, 67000)>>,        \* -0.166666666667
     <<1, 0, Dec(1, 16666, 66666, 67000)>>,          \* 0.166666666667
     <<2, 0, Dec(1, 8333, 33333, 33300)>>,           \* 0.0833333333333
     <<3, 0, Dec(1, 5555, 55555, 55600)>>,           \* 0.0555555555556
     <<0, 1, Dec(1, 16666, 66666, 67000)>>,          \* 0.166666666667
     <<0, 2, Dec(1, 8333, 33333, 33300)>>,           \* 0.0833333333333
     <<0, 3, Dec(1, 5555, 55555, 55600)>> >>         \* 0.0555555555556

star4 ==
  <<
     <<0, -4, Dec(-1, 3125, 0, 0)>>,                 \* -0.03125
     <<0, -3, Dec(-1, 4166, 66666, 66700)>>,         \* -0.0416666666667
     <<0, -2, Dec(-1, 6250, 0, 0)>>,                 \* -0.0625
     <<0, -1, Dec(-1, 12500, 0, 0)>>,                \* -0.125
     <<-4, 0, Dec(-1, 3125, 0, 0)>>,                 \* -0.03125
     <<-3, 0, Dec(-1, 4166, 66666, 66700)>>,         \* -0.0416666666667
     <<-2, 0, Dec(-1, 6250, 0, 0)>>,                 \* -0.0625
     <<-1, 0, Dec(-1, 12500, 0, 0)>>,                \* -0.125
     <<1, 0, Dec(1, 12500, 0, 0)>>,                  \* 0.125
     <<2, 0, Dec(1, 6250, 0, 0)>>,                   \* 0.0625
     <<3, 0, Dec(1, 4166, 66666, 66700)>>,           \* 0.0416666666667
     <<4, 0, Dec(1, 3125, 0, 0)>>,                   \* 0.03125
     <<0, 1, Dec(1, 12500, 0, 0)>>,                  \* 0.125
     <<0, 2, Dec(1, 6250, 0, 0)>>,                   \* 0.0625
     <<0, 3, Dec(1, 4166, 66666, 66700)>>,           \* 0.0416666666667
     <<0, 4, Dec(1, 3125, 0, 0)>> >>                 \* 0.03125

star5 ==
  <<
     <<0, -5, Dec(-1, 2000, 0, 0)>>,                 \* -0.02
     <<0, -4, Dec(-1, 2500, 0, 0)>>,                 \* -0.025
     <<0, -3, Dec(-1, 3333, 33333, 33300)>>,         \* -0.0333333333333
     <<0, -2, Dec(-1, 5000, 0, 0)>>,                 \* -0.05
     <<0, -1, Dec(-1, 10000, 0, 0)>>,                \* -0.1
     <<-5, 0, Dec(-1, 2000, 0, 0)>>,                 \* -0.02
     <<-4, 0, Dec(-1, 2500, 0, 0)>>,                 \* -0.025
     <<-3, 0, Dec(-1, 3333, 33333, 33300)>>,         \* -0.0333333333333
     <<-2, 0, Dec(-1, 5000, 0, 0)>>,                 \* -0.05
     <<-1, 0, Dec(-1, 10000, 0, 0)>>,                \* -0.1
     <<1, 0, Dec(1, 10000, 0, 0)>>,                  \* 0.1
     <<2, 0, Dec(1, 5000, 0, 0)>>,                   \* 0.05
     <<3, 0, Dec(1, 3333, 33333, 33300)>>,           \* 0.0333333333333
     <<4, 0, Dec(1, 2500, 0, 0)>>,                   \* 0.025
     <<5, 0, Dec(1, 2000, 0, 0)>>,                   \* 0.02
     <<0, 1, Dec(1, 10000, 0, 0)>>,                  \* 0.1
     <<0, 2, Dec(1, 5000, 0, 0)>>,                   \* 0.05
     <<0, 3, Dec(1, 3333, 33333, 33300)>>,           \* 0.0333333333333
     <<0, 4, Dec(1, 2500, 0, 0)>>,                   \* 0.025
     <<0, 5, Dec(1, 2000, 0, 0)>> >>                 \* 0.02

grid1Full ==
  <<
     <<-1, -1, Dec(-1, 25000, 0, 0)>>,
     <<0, -1, Dec(-1, 25000, 0, 0)>>,
     <<-1, 0, Dec(-1, 25000, 0, 0)>>,
     <<-1, 1, Dec(-1, 25000, 0, 0)>>,
     <<1, -1, Dec(1, 25000, 0, 0)>>,
     <<1, 0, Dec(1, 25000, 0, 0)>>,
     <<0, 1, Dec(1, 25000, 0, 0)>>,
     <<1, 1, Dec(1, 25000, 0, 0)>> >>

grid1 ==
  <<
     <<-1, -1, Dec(-1, 25000, 0, 0)>>,               \* -0.25
     <<0, -1, Dec(-1, 25000, 0, 0)>>,                \* -0.25
     <<-1, 0, Dec(-1, 25000, 0, 0)>>,                \* -0.25
     <<1, 0, Dec(1, 25000, 0, 0)>>,                  \* 0.25
     <<0, 1, Dec(1, 25000, 0, 0)>>,                  \* 0.25
     <<1, 1, Dec(1, 25000, 0, 0)>> >>                \* 0.25

grid2 ==
  <<
     <<-2, -2, Dec(-1, 6250, 0, 0)>>,                \* -0.0625
     <<-1, -2, Dec(-1, 2083, 33333, 33300)>>,        \* -0.0208333333333
     <<0, -2, Dec(-1, 2083, 33333, 33300)>>,         \* -0.0208333333333
     <<1, -2, Dec(-1, 2083, 33333, 33300)>>,         \* -0.0208333333333
     <<-2, -1, Dec(-1, 2083, 33333, 33300)>>,        \* -0.0208333333333
     <<-1, -1, Dec(-1, 12500, 0, 0)>>,               \* -0.125
     <<0, -1, Dec(-1, 12500, 0, 0)>>,                \* -0.125
     <<2, -1, Dec(1, 2083, 33333, 33300)>>,          \* 0.0208333333333
     <<-2, 0, Dec(-1, 2083, 33333, 33300)>>,         \* -0.0208333333333
     <<-1, 0, Dec(-1, 12500, 0, 0)>>,                \* -0.125
     <<1, 0, Dec(1, 12500, 0, 0)>>,                  \* 0.125
     <<2, 0, Dec(1, 2083, 33333, 33300)>>,           \* 0.0208333333333
     <<-2, 1, Dec(-1, 2083, 33333, 33300)>>,         \* -0.0208333333333
     <<0, 1, Dec(1, 12500, 0, 0)>>,                  \* 0.125
     <<1, 1, Dec(1, 12500, 0, 0)>>,                  \* 0.125
     <<2, 1, Dec(1, 2083, 33333, 33300)>>,           \* 0.0208333333333
     <<-1, 2, Dec(1, 2083, 33333, 33300)>>,          \* 0.0208333333333
     <<0, 2, Dec(1, 2083, 33333, 33300)>>,           \* 0.0208333333333
     <<1, 2, Dec(1, 2083, 33333, 33300)>>,           \* 0.0208333333333
     <<2, 2, Dec(1, 6250, 0, 0)>> >>                 \* 0.0625

grid3 ==
  <<
     <<-3, -3, Dec(-1, 2777, 77777, 77800)>>,        \* -0.0277777777778
     <<-2, -3, Dec(-1, 555, 55555, 55560)>>,         \* -0.00555555555556
     <<-1, -3, Dec(-1, 555, 55555, 55560)>>,         \* -0.00555555555556
     <<0, -3, Dec(-1, 555, 55555, 55560)>>,          \* -0.00555555555556
     <<1, -3, Dec(-1, 555, 55555, 55560)>>,          \* -0.00555555555556
     <<2, -3, Dec(-1, 555, 55555, 55560)>>,          \* -0.00555555555556
     <<-3, -2, Dec(-1, 555, 55555, 55560)>>,         \* -0.00555555555556
     <<-2, -2, Dec(-1, 4166, 66666, 66700)>>,        \* -0.0416666666667
     <<-1, -2, Dec(-1, 1388, 88888, 88900)>>,        \* -0.0138888888889
     <<0, -2, Dec(-1, 1388, 88888, 88900)>>,         \* -0.0138888888889
     <<1, -2, Dec(-1, 1388, 88888, 88900)>>,         \* -0.0138888888889
     <<3, -2, Dec(1, 555, 55555, 55560)>>,           \* 0.00555555555556
     <<-3, -1, Dec(-1, 555, 55555, 55560)>>,         \* -0.00555555555556
     <<-2, -1, Dec(-1, 1388, 88888, 88900)>>,        \* -0.0138888888889
     <<-1, -1, Dec(-1, 8333, 33333, 33300)>>,        \* -0.0833333333333
     <<0, -1, Dec(-1, 8333, 33333, 33300)>>,         \* -0.0833333333333
     <<2, -1, Dec(1, 1388, 88888, 88900)>>,          \* 0.0138888888889
     <<3, -1, Dec(1, 555, 55555, 55560)>>,           \* 0.00555555555556
     <<-3, 0, Dec(-1, 555, 55555, 55560)>>,          \* -0.00555555555556
     <<-2, 0, Dec(-1, 1388, 88888, 88900)>>,         \* -0.0138888888889
     <<-1, 0, Dec(-1, 8333, 33333, 33300)>>,         \* -0.0833333333333
     <<1, 0, Dec(1, 8333, 33333, 33300)>>,           \* 0.0833333333333
     <<2, 0, Dec(1, 1388, 88888, 88900)>>,           \* 0.0138888888889
     <<3, 0, Dec(1, 555, 55555, 55560)>>,            \* 0.00555555555556
     <<-3, 1, Dec(-1, 555, 55555, 55560)>>,          \* -0.00555555555556
     <<-2, 1, Dec(-1, 1388, 88888, 88900)>>,         \* -0.0138888888889
     <<0, 1, Dec(1, 8333, 33333, 33300)>>,           \* 0.0833333333333
     <<1, 1, Dec(1, 8333, 33333, 33300)>>,           \* 0.0833333333333
     <<2, 1, Dec(1, 1388, 88888, 88900)>>,           \* 0.0138888888889
     <<3, 1, Dec(1, 555, 55555, 55560)>>,            \* 0.00555555555556
     <<-3, 2, Dec(-1, 555, 55555, 55560)>>,          \* -0.00555555555556
     <<-1, 2, Dec(1, 1388, 88888, 88900)>>,          \* 0.0138888888889
     <<0, 2, Dec(1, 1388, 88888, 88900)>>,           \* 0.0138888888889
     <<1, 2, Dec(1, 1388, 88888, 88900)>>,           \* 0.0138888888889
     <<2, 2, Dec(1, 4166, 66666, 66700)>>,           \* 0.0416666666667
     <<3, 2, Dec(1, 555, 55555, 55560)>>,            \* 0.00555555555556
     <<-2, 3, Dec(1, 555, 55555, 55560)>>,           \* 0.00555555555556
     <<-1, 3, Dec(1, 555, 55555, 55560)>>,           \* 0.00555555555556
     <<0, 3, Dec(1, 555, 55555, 55560)>>,            \* 0.00555555555556
     <<1, 3, Dec(1, 555, 55555, 55560)>>,            \* 0.00555555555556
     <<2, 3, Dec(1, 555, 55555, 55560)>>,            \* 0.00555555555556
     <<3, 3, Dec(1, 2777, 77777, 77800)>> >>         \* 0.0277777777778

grid4 ==
  <<
     <<-4, -4, Dec(-1, 1562, 50000, 0)>>,            \* -0.015625
     <<-3, -4, Dec(-1, 223, 21428, 57140)>>,         \* -0.00223214285714
     <<-2, -4, Dec(-1, 223, 21428, 57140)>>,         \* -0.00223214285714
     <<-1, -4, Dec(-1, 223, 21428, 57140)>>,         \* -0.00223214285714
     <<0, -4, Dec(-1, 223, 21428, 57140)>>,          \* -0.00223214285714
     <<1, -4, Dec(-1, 223, 21428, 57140)>>,          \* -0.00223214285714
     <<2, -4, Dec(-1, 223, 21428, 57140)>>,          \* -0.00223214285714
     <<3, -4, Dec(-1, 223, 21428, 57140)>>,          \* -0.00223214285714
     <<-4, -3, Dec(-1, 223, 21428, 57140)>>,         \* -0.00223214285714
     <<-3, -3, Dec(-1, 2083, 33333, 33300)>>,        \* -0.0208333333333
     <<-2, -3, Dec(-1, 416, 66666, 66670)>>,         \* -0.00416666666667
     <<-1, -3, Dec(-1, 416, 66666, 66670)>>,         \* -0.00416666666667
     <<0, -3, Dec(-1, 416, 66666, 66670)>>,          \* -0.00416666666667
     <<1, -3, Dec(-1, 416, 66666, 66670)>>,          \* -0.00416666666667
     <<2, -3, Dec(-1, 416, 66666, 66670)>>,          \* -0.00416666666667
     <<4, -3, Dec(1, 223, 21428, 57140)>>,           \* 0.00223214285714
     <<-4, -2, Dec(-1, 223, 21428, 57140)>>,         \* -0.00223214285714
     <<-3, -2, Dec(-1, 416, 66666, 66670)>>,         \* -0.00416666666667
     <<-2, -2, Dec(-1, 3125, 0, 0)>>,                \* -0.03125
     <<-1, -2, Dec(-1, 1041, 66666, 66700)>>,        \* -0.0104166666667
     <<0, -2, Dec(-1, 1041, 66666, 66700)>>,         \* -0.0104166666667
     <<1, -2, Dec(-1, 1041, 66666, 66700)>>,         \* -0.0104166666667
     <<3, -2, Dec(1, 416, 66666, 66670)>>,           \* 0.00416666666667
     <<4, -2, Dec(1, 223, 21428, 57140)>>,           \* 0.00223214285714
     <<-4, -1, Dec(-1, 223, 21428, 57140)>>,         \* -0.00223214285714
     <<-3, -1, Dec(-1, 416, 66666, 66670)>>,         \* -0.00416666666667
     <<-2, -1, Dec(-1, 1041, 66666, 66700)>>,        \* -0.0104166666667
     <<-1, -1, Dec(-1, 6250, 0, 0)>>,                \* -0.0625
     <<0, -1, Dec(-1, 6250, 0, 0)>>,                 \* -0.0625
     <<2, -1, Dec(1, 1041, 66666, 66700)>>,          \* 0.0104166666667
     <<3, -1, Dec(1, 416, 66666, 66670)>>,           \* 0.00416666666667
     <<4, -1, Dec(1, 223, 21428, 57140)>>,           \* 0.00223214285714
     <<-4, 0, Dec(-1, 223, 21428, 57140)>>,          \* -0.00223214285714
     <<-3, 0, Dec(-1, 416, 66666, 66670)>>,          \* -0.00416666666667
     <<-2, 0, Dec(-1, 1041, 66666, 66700)>>,         \* -0.0104166666667
     <<-1, 0, Dec(-1, 6250, 0, 0)>>,                 \* -0.0625
     <<1, 0, Dec(1, 6250, 0, 0)>>,                   \* 0.0625
     <<2, 0, Dec(1, 1041, 66666, 66700)>>,           \* 0.0104166666667
     <<3, 0, Dec(1, 416, 66666, 66670)>>,            \* 0.00416666666667
     <<4, 0, Dec(1, 223, 21428, 57140)>>,            \* 0.00223214285714
     <<-4, 1, Dec(-1, 223, 21428, 57140)>>,          \* -0.00223214285714
     <<-3, 1, Dec(-1, 416, 66666, 66670)>>,          \* -0.00416666666667
     <<-2, 1, Dec(-1, 1041, 66666, 66700)>>,         \* -0.0104166666667
     <<0, 1, Dec(1, 6250, 0, 0)>>,                   \* 0.0625
     <<1, 1, Dec(1, 6250, 0, 0)>>,                   \* 0.0625
     <<2, 1, Dec(1, 1041, 66666, 66700)>>,           \* 0.0104166666667
     <<3, 1, Dec(1, 416, 66666, 66670)>>,            \* 0.00416666666667
     <<4, 1, Dec(1, 223, 21428, 57140)>>,            \* 0.00223214285714
     <<-4, 2, Dec(-1, 223, 21428, 57140)>>,          \* -0.00223214285714
     <<-3, 2, Dec(-1, 416, 66666, 66670)>>,          \* -0.00416666666667
     <<-1, 2, Dec(1, 1041, 66666, 66700)>>,          \* 0.0104166666667
     <<0, 2, Dec(1, 1041, 66666, 66700)>>,           \* 0.0104166666667
     <<1, 2, Dec(1, 1041, 66666, 66700)>>,           \* 0.0104166666667
     <<2, 2, Dec(1, 3125, 0, 0)>>,                   \* 0.03125
     <<3, 2, Dec(1, 416, 66666, 66670)>>,            \* 0.00416666666667
     <<4, 2, Dec(1, 223, 21428, 57140)>>,            \* 0.00223214285714
     <<-4, 3, Dec(-1, 223, 21428, 57140)>>,          \* -0.00223214285714
     <<-2, 3, Dec(1, 416, 66666, 66670)>>,           \* 0.00416666666667
     <<-1, 3, Dec(1, 416, 66666, 66670)>>,           \* 0.00416666666667
     <<0, 3, Dec(1, 416, 66666, 66670)>>,            \* 0.00416666666667
     <<1, 3, Dec(1, 416, 66666, 66670)>>,            \* 0.00416666666667
     <<2, 3, Dec(1, 416, 66666, 66670)>>,            \* 0.00416666666667
     <<3, 3, Dec(1, 2083, 33333, 33300)>>,           \* 0.0208333333333
     <<4, 3, Dec(1, 223, 21428, 57140)>>,            \* 0.00223214285714
     <<-3, 4, Dec(1, 223, 21428, 57140)>>,           \* 0.00223214285714
     <<-2, 4, Dec(1, 223, 21428, 57140)>>,           \* 0.00223214285714
     <<-1, 4, Dec(1, 223, 21428, 57140)>>,           \* 0.00223214285714
     <<0, 4, Dec(1, 223, 21428, 57140)>>,            \* 0.00223214285714
     <<1, 4, Dec(1, 223, 21428, 57140)>>,            \* 0.00223214285714
     <<2, 4, Dec(1, 223, 21428, 57140)>>,            \* 0.00223214285714
     <<3, 4, Dec(1, 223, 21428, 57140)>>,            \* 0.00223214285714
     <<4, 4, Dec(1, 1562, 50000, 0)>> >>             \* 0.015625

grid5 ==
  <<
     <<-5, -5, Dec(-1, 1000, 0, 0)>>,                \* -0.01
     <<-4, -5, Dec(-1, 111, 11111, 11110)>>,         \* -0.00111111111111
     <<-3, -5, Dec(-1, 111, 11111, 11110)>>,         \* -0.00111111111111
     <<-2, -5, Dec(-1, 111, 11111, 11110)>>,         \* -0.00111111111111
     <<-1, -5, Dec(-1, 111, 11111, 11110)>>,         \* -0.00111111111111
     <<0, -5, Dec(-1, 111, 11111, 11110)>>,          \* -0.00111111111111
     <<1, -5, Dec(-1, 111, 11111, 11110)>>,          \* -0.00111111111111
     <<2, -5, Dec(-1, 111, 11111, 11110)>>,          \* -0.00111111111111
     <<3, -5, Dec(-1, 111, 11111, 11110)>>,          \* -0.00111111111111
     <<4, -5, Dec(-1, 111, 11111, 11110)>>,          \* -0.00111111111111
     <<-5, -4, Dec(-1, 111, 11111, 11110)>>,         \* -0.00111111111111
     <<-4, -4, Dec(-1, 1250, 0, 0)>>,                \* -0.0125
     <<-3, -4, Dec(-1, 178, 57142, 85710)>>,         \* -0.00178571428571
     <<-2, -4, Dec(-1, 178, 57142, 85710)>>,         \* -0.00178571428571
     <<-1, -4, Dec(-1, 178, 57142, 85710)>>,         \* -0.00178571428571
     <<0, -4, Dec(-1, 178, 57142, 85710)>>,          \* -0.00178571428571
     <<1, -4, Dec(-1, 178, 57142, 85710)>>,          \* -0.00178571428571
     <<2, -4, Dec(-1, 178, 57142, 85710)>>,          \* -0.00178571428571
     <<3, -4, Dec(-1, 178, 57142, 85710)>>,          \* -0.00178571428571
     <<5, -4, Dec(1, 111, 11111, 11110)>>,           \* 0.00111111111111
     <<-5, -3, Dec(-1, 111, 11111, 11110)>>,         \* -0.00111111111111
     <<-4, -3, Dec(-1, 178, 57142, 85710)>>,         \* -0.00178571428571
     <<-3, -3, Dec(-1, 1666, 66666, 66700)>>,        \* -0.0166666666667
     <<-2, -3, Dec(-1, 333, 33333, 33330)>>,         \* -0.00333333333333
     <<-1, -3, Dec(-1, 333, 33333, 33330)>>,         \* -0.00333333333333
     <<0, -3, Dec(-1, 333, 33333, 33330)>>,          \* -0.00333333333333
     <<1, -3, Dec(-1, 333, 33333, 33330)>>,          \* -0.00333333333333
     <<2, -3, Dec(-1, 333, 33333, 33330)>>,          \* -0.00333333333333
     <<4, -3, Dec(1, 178, 57142, 85710)>>,           \* 0.00178571428571
     <<5, -3, Dec(1, 111, 11111, 11110)>>,           \* 0.00111111111111
     <<-5, -2, Dec(-1, 111, 11111, 11110)>>,         \* -0.00111111111111
     <<-4, -2, Dec(-1, 178, 57142, 85710)>>,         \* -0.00178571428571
     <<-3, -2, Dec(-1, 333, 33333, 33330)>>,         \* -0.00333333333333
     <<-2, -2, Dec(-1, 2500, 0, 0)>>,                \* -0.025
     <<-1, -2, Dec(-1, 833, 33333, 33330)>>,         \* -0.00833333333333
     <<0, -2, Dec(-1, 833, 33333, 33330)>>,          \* -0.00833333333333
     <<1, -2, Dec(-1, 833, 33333, 33330)>>,          \* -0.00833333333333
     <<3, -2, Dec(1, 333, 33333, 33330)>>,           \* 0.00333333333333
     <<4, -2, Dec(1, 178, 57142, 85710)>>,           \* 0.00178571428571
     <<5, -2, Dec(1, 111, 11111, 11110)>>,           \* 0.00111111111111
     <<-5, -1, Dec(-1, 111, 11111, 11110)>>,         \* -0.00111111111111
     <<-4, -1, Dec(-1, 178, 57142, 85710)>>,         \* -0.00178571428571
     <<-3, -1, Dec(-1, 333, 33333, 33330)>>,         \* -0.00333333333333
     <<-2, -1, Dec(-1, 833, 33333, 33330)>>,         \* -0.00833333333333
     <<-1, -1, Dec(-1, 5000, 0, 0)>>,                \* -0.05
     <<0, -1, Dec(-1, 5000, 0, 0)>>,                 \* -0.05
     <<2, -1, Dec(1, 833, 33333, 33330)>>,           \* 0.00833333333333
     <<3, -1, Dec(1, 333, 33333, 33330)>>,           \* 0.00333333333333
     <<4, -1, Dec(1, 178, 57142, 85710)>>,           \* 0.00178571428571
     <<5, -1, Dec(1, 111, 11111, 11110)>>,           \* 0.00111111111111
     <<-5, 0, Dec(-1, 111, 11111, 11110)>>,          \* -0.00111111111111
     <<-4, 0, Dec(-1, 178, 57142, 85710)>>,          \* -0.00178571428571
     <<-3, 0, Dec(-1, 333, 33333, 33330)>>,          \* -0.00333333333333
     <<-2, 0, Dec(-1, 833, 33333, 33330)>>,          \* -0.00833333333333
     <<-1, 0, Dec(-1, 5000, 0, 0)>>,                 \* -0.05
     <<1, 0, Dec(1, 5000, 0, 0)>>,                   \* 0.05
     <<2, 0, Dec(1, 833, 33333, 33330)>>,            \* 0.00833333333333
     <<3, 0, Dec(1, 333, 33333, 33330)>>,            \* 0.00333333333333
     <<4, 0, Dec(1, 178, 57142, 85710)>>,            \* 0.00178571428571
     <<5, 0, Dec(1, 111, 11111, 11110)>>,            \* 0.00111111111111
     <<-5, 1, Dec(-1, 111, 11111, 11110)>>,          \* -0.00111111111111
     <<-4, 1, Dec(-1, 178, 57142, 85710)>>,          \* -0.00178571428571
     <<-3, 1, Dec(-1, 333, 33333, 33330)>>,          \* -0.00333333333333
     <<-2, 1, Dec(-1, 833, 33333, 33330)>>,          \* -0.00833333333333
     <<0, 1, Dec(1, 5000, 0, 0)>>,                   \* 0.05
     <<1, 1, Dec(1, 5000, 0, 0)>>,                   \* 0.05
     <<2, 1, Dec(1, 833, 33333, 33330)>>,            \* 0.00833333333333
     <<3, 1, Dec(1, 333, 33333, 33330)>>,            \* 0.00333333333333
     <<4, 1, Dec(1, 178, 57142, 85710)>>,            \* 0.00178571428571
     <<5, 1, Dec(1, 111, 11111, 11110)>>,            \* 0.00111111111111
     <<-5, 2, Dec(-1, 111, 11111, 11110)>>,          \* -0.00111111111111
     <<-4, 2, Dec(-1, 178, 57142, 85710)>>,          \* -0.00178571428571
     <<-3, 2, Dec(-1, 333, 33333, 33330)>>,          \* -0.00333333333333
     <<-1, 2, Dec(1, 833, 33333, 33330)>>,           \* 0.00833333333333
     <<0, 2, Dec(1, 833, 33333, 33330)>>,            \* 0.00833333333333
     <<1, 2, Dec(1, 833, 33333, 33330)>>,            \* 0.00833333333333
     <<2, 2, Dec(1, 2500, 0, 0)>>,                   \* 0.025
     <<3, 2, Dec(1, 333, 33333, 33330)>>,            \* 0.00333333333333
     <<4, 2, Dec(1, 178, 57142, 85710)>>,            \* 0.00178571428571
     <<5, 2, Dec(1, 111, 11111, 11110)>>,            \* 0.00111111111111
     <<-5, 3, Dec(-1, 111, 11111, 11110)>>,          \* -0.00111111111111
     <<-4, 3, Dec(-1, 178, 57142, 85710)>>,          \* -0.00178571428571
     <<-2, 3, Dec(1, 333, 33333, 33330)>>,           \* 0.00333333333333
     <<-1, 3, Dec(1, 333, 33333, 33330)>>,           \* 0.00333333333333
     <<0, 3, Dec(1, 333, 33333, 33330)>>,            \* 0.00333333333333
     <<1, 3, Dec(1, 333, 33333, 33330)>>,            \* 0.00333333333333
     <<2, 3, Dec(1, 333, 33333, 33330)>>,            \* 0.00333333333333
     <<3, 3, Dec(1, 1666, 66666, 66700)>>,           \* 0.0166666666667
     <<4, 3, Dec(1, 178, 57142, 85710)>>,            \* 0.00178571428571
     <<5, 3, Dec(1, 111, 11111, 11110)>>,            \* 0.00111111111111
     <<-5, 4, Dec(-1, 111, 11111, 11110)>>,          \* -0.00111111111111
     <<-3, 4, Dec(1, 178, 57142, 85710)>>,           \* 0.00178571428571
     <<-2, 4, Dec(1, 178, 57142, 85710)>>,           \* 0.00178571428571
     <<-1, 4, Dec(1, 178, 57142, 85710)>>,           \* 0.00178571428571
     <<0, 4, Dec(1, 178, 57142, 85710)>>,            \* 0.00178571428571
     <<1, 4, Dec(1, 178, 57142, 85710)>>,            \* 0.00178571428571
     <<2, 4, Dec(1, 178, 57142, 85710)>>,            \* 0.00178571428571
     <<3, 4, Dec(1, 178, 57142, 85710)>>,            \* 0.00178571428571
     <<4, 4, Dec(1, 1250, 0, 0)>>,                   \* 0.0125
     <<5, 4, Dec(1, 111, 11111, 11110)>>,            \* 0.00111111111111
     <<-4, 5, Dec(1, 111, 11111, 11110)>>,           \* 0.00111111111111
     <<-3, 5, Dec(1, 111, 11111, 11110)>>,           \* 0.00111111111111
     <<-2, 5, Dec(1, 111, 11111, 11110)>>,           \* 0.00111111111111
     <<-1, 5, Dec(1, 111, 11111, 11110)>>,           \* 0.00111111111111
     <<0, 5, Dec(1, 111, 11111, 11110)>>,            \* 0.00111111111111
     <<1, 5, Dec(1, 111, 11111, 11110)>>,            \* 0.00111111111111
     <<2, 5, Dec(1, 111, 11111, 11110)>>,            \* 0.00111111111111
     <<3, 5, Dec(1, 111, 11111, 11110)>>,            \* 0.00111111111111
     <<4, 5, Dec(1, 111, 11111, 11110)>>,            \* 0.00111111111111
     <<5, 5, Dec(1, 1000, 0, 0)>> >>                 \* 0.01

KernelTableShort(isStar, r) ==
  LET tab == IF isStar
             THEN CASE r = 1 -> star1 [] r = 2 -> star2 [] r = 3 -> star3
                    [] r = 4 -> star4 [] r = 5 -> star5
             ELSE CASE r = 1 -> grid1 [] r = 2 -> grid2 [] r = 3 -> grid3
                    [] r = 4 -> grid4 [] r = 5 -> grid5
  IN  SubSeq(tab, 1, Len(tab) - 1)

\* the kernel of a shape and a radius
KernelTable(isStar, r) ==
  IF isStar
  THEN CASE r = 1 -> star1 [] r = 2 -> star2 [] r = 3 -> star3
         [] r = 4 -> star4 [] r = 5 -> star5
  ELSE CASE r = 1 -> grid1 [] r = 2 -> grid2 [] r = 3 -> grid3
         [] r = 4 -> grid4 [] r = 5 -> grid5

Min(x, y) == IF x < y THEN x ELSE y

\* it<n-r and jt<n-r of the two tile loops
TileLoopRuns(x, dim, r) == x < dim - r

\* std::min(n-r,it+t) and std::min(n-r,jt+t) of the two point loops
PointLoopEnd(xt, dim, r, t) == Min(dim - r, xt + t)

\* it+t and jt+t are sums of two int: one above INT_MAX is a signed overflow,
\* and the behaviour of the call is undefined from there on
SumOverflows(xt, t) == xt > IntMax - t

\* The loop nest of a kernel.  A position is <<it, jt, i, j>>, the values of
\* the four loop variables when the body runs; <<>> is the end of the nest
\* and Undefined a signed overflow in a loop condition.
\* SeekJ .. SeekIT find the position the nest reaches next from the head of
\* the j, i, jt and it loop.
Undefined == <<"undefined">>

RECURSIVE SeekJ(_, _, _, _, _, _, _), SeekI(_, _, _, _, _, _),
          SeekJT(_, _, _, _, _), SeekIT(_, _, _, _)
SeekJ(xit, xjt, xi, xj, dim, r, t) ==
  IF SumOverflows(xjt, t) THEN Undefined
  ELSE IF xj < PointLoopEnd(xjt, dim, r, t) THEN <<xit, xjt, xi, xj>>
  ELSE SeekI(xit, xjt, xi + 1, dim, r, t)
SeekI(xit, xjt, xi, dim, r, t) ==
  IF SumOverflows(xit, t) THEN Undefined
  ELSE IF xi < PointLoopEnd(xit, dim, r, t) THEN SeekJ(xit, xjt, xi, xjt, dim, r, t)
  ELSE SeekJT(xit, xjt + t, dim, r, t)
SeekJT(xit, xjt, dim, r, t) ==
  IF TileLoopRuns(xjt, dim, r) THEN SeekI(xit, xjt, xit, dim, r, t)
  ELSE SeekIT(xit + t, dim, r, t)
SeekIT(xit, dim, r, t) ==
  IF TileLoopRuns(xit, dim, r) THEN SeekJT(xit, r, dim, r, t)
  ELSE <<>>

FirstPosition(dim, r, t) == SeekIT(r, dim, r, t)
NextPosition(pos, dim, r, t) == SeekJ(pos[1], pos[2], pos[3], pos[4] + 1, dim, r, t)

\* the indices of in that the body reads at cell (i, j), and the one of out
\* it updates
CellIndex(dim, i, j) == i * dim + j

\* an index outside the grid: the behaviour of the body is undefined
CellFaults(tab, dim, i, j) ==
  \/ CellIndex(dim, i, j) \notin 0 .. dim * dim - 1
  \/ \E k \in 1 .. Len(tab) :
       CellIndex(dim, i + tab[k][1], j + tab[k][2]) \notin 0 .. dim * dim - 1

\* the sum of the terms in[(i+di)*n+(j+dj)] * coefficient, added from left to
\* right: Range adds the terms lo .. hi, in this order, to the sum acc of
\* the terms before them (the test on acc has it computed first)
TermSum(tab, grid, dim, i, j) ==
  LET Term(k) ==
        NumTimes(tab[k][3], grid[CellIndex(dim, i + tab[k][1], j + tab[k][2])])
      RECURSIVE Range(_, _, _)
      Range(acc, lo, hi) ==
        IF lo > hi \/ acc = <<>> THEN acc
        ELSE IF lo = hi THEN NumAdd(acc, Term(lo))
        ELSE Range(Range(acc, lo, (lo + hi) \div 2), ((lo + hi) \div 2) + 1, hi)
  IN  Range(Term(1), 2, Len(tab))

CellUpdateOverwrite(tab, grid, res, dim, i, j) ==
  [res EXCEPT ![CellIndex(dim, i, j)] = TermSum(tab, grid, dim, i, j)]

\* the body: out[i*n+j] += the sum of the terms
CellUpdate(tab, grid, res, dim, i, j) ==
  [res EXCEPT ![CellIndex(dim, i, j)] =
     NumAdd(@, TermSum(tab, grid, dim, i, j))]

\* the coefficients as the doubles their literals denote
DOfTable(tab) ==
  LET RECURSIVE Range(_, _, _)
      Range(acc, lo, hi) ==
        IF lo > hi \/ Len(acc) < 0 THEN acc
        ELSE IF lo = hi THEN Append(acc, DOfNum(tab[lo][3]))
        ELSE Range(Range(acc, lo, (lo + hi) \div 2), ((lo + hi) \div 2) + 1, hi)
  IN  Range(<<>>, 1, Len(tab))

Coefficients64 ==
  << <<DOfTable(KernelTable(TRUE, 1)),
       DOfTable(KernelTable(TRUE, 2)),
       DOfTable(KernelTable(TRUE, 3)),
       DOfTable(KernelTable(TRUE, 4)),
       DOfTable(KernelTable(TRUE, 5))>>,
     <<DOfTable(KernelTable(FALSE, 1)),
       DOfTable(KernelTable(FALSE, 2)),
       DOfTable(KernelTable(FALSE, 3)),
       DOfTable(KernelTable(FALSE, 4)),
       DOfTable(KernelTable(FALSE, 5))>> >>

\* the coefficients of a table as doubles
KernelTable64(isStar, r) == Coefficients64[IF isStar THEN 1 ELSE 2][r]

\* the sum of the terms as binary64 computes it
TermSum64(tab, tab64, grid, dim, i, j) ==
  LET Term(k) ==
        DMul(DOfInt(grid[CellIndex(dim, i + tab[k][1], j + tab[k][2])]),
             tab64[k])
      RECURSIVE Range(_, _, _)
      Range(acc, lo, hi) ==
        IF lo > hi \/ acc = <<>> THEN acc
        ELSE IF lo = hi THEN DAdd(acc, Term(lo))
        ELSE Range(Range(acc, lo, (lo + hi) \div 2), ((lo + hi) \div 2) + 1, hi)
  IN  Range(Term(1), 2, Len(tab))

\* the body as binary64 computes it
CellUpdate64(tab, tab64, grid, res, dim, i, j) ==
  [res EXCEPT ![CellIndex(dim, i, j)] =
     DAdd(@, TermSum64(tab, tab64, grid, dim, i, j))]

\* a whole call of a kernel; <<>> when its behaviour is undefined.  st is the position of the
\* loops and out; Body runs the body once and moves on, Runs does so k
\* times, or until the loops end
KernelCall(isStar, r, dim, t, grid, res) ==
  LET tab == KernelTable(isStar, r)
      Body(st) ==
        IF st[1] = <<>> \/ st[2] = <<>> THEN st
        ELSE IF st[1] = Undefined THEN <<<<>>, <<>>>>
        ELSE IF CellFaults(tab, dim, st[1][3], st[1][4]) THEN <<<<>>, <<>>>>
        ELSE <<NextPosition(st[1], dim, r, t),
               CellUpdate(tab, grid, st[2], dim, st[1][3], st[1][4])>>
      RECURSIVE Runs(_, _)
      Runs(st, k) ==
        IF st[1] = <<>> \/ k = 0 THEN st
        ELSE IF k = 1 THEN Body(st)
        ELSE Runs(Runs(st, k \div 2), k - (k \div 2))
      RECURSIVE Whole(_)
      Whole(st) ==
        IF st[1] = <<>> \/ st[2] = <<>> THEN st[2]
        ELSE Whole(Runs(st, dim * dim))
  IN  Whole(<<FirstPosition(dim, r, t), res>>)

(***************************************************************************)
(* SpecStencilKernel: one call of a kernel, one step per run of its body.  *)
(***************************************************************************)
Interior(dim, r) == {c \in 0 .. dim * dim - 1 :
                       /\ r <= c \div dim /\ c \div dim < dim - r
                       /\ r <= c % dim /\ c % dim < dim - r}

InitStencilKernel ==
  /\ star \in BOOLEAN
  /\ radius \in 1 .. 5
  /\ n \in 2 * radius + 1 .. 2 * radius + 1 + MaxExtra
  /\ tile_size \in 1 .. MaxTile
  /\ in \in {[c \in 0 .. n * n - 1 |-> (c \div n) + (c % n)],
             [c \in 0 .. n * n - 1 |-> 1],
             [c \in 0 .. n * n - 1 |-> (c * c) % 7]}
  /\ out \in {[c \in 0 .. n * n - 1 |-> NumZero],
              [c \in 0 .. n * n - 1 |-> NumOf(c + 1)]}
  /\ kpc = "idle"
  /\ it = 0 /\ jt = 0 /\ ci = 0 /\ cj = 0
  /\ visits = [c \in 0 .. n * n - 1 |-> 0]
  /\ in0 = in /\ out0 = out
  /\ out64 = <<>>
  /\ norm = <<>> /\ stencil = "none"
  /\ NoMain /\ NoTriadMain /\ NoTriad /\ NoUnits

GoTo(pos) ==
  IF Len(pos) < 4
  THEN /\ kpc' = IF pos = <<>> THEN "done" ELSE "fault"
       /\ UNCHANGED <<it, jt, ci, cj>>
  ELSE /\ kpc' = "run"
       /\ it' = pos[1] /\ jt' = pos[2] /\ ci' = pos[3] /\ cj' = pos[4]

\* the call enters the loop nest
StencilEnter ==
  /\ kpc = "idle"
  /\ pc = "none"
  /\ GoTo(FirstPosition(n, radius, tile_size))
  /\ UNCHANGED <<star, radius, tile_size, in, out, out64, visits, in0, out0,
                 norm, stencil>>
  /\ UNCHANGED <<launchVars, A, B, C, unitVars, mainVars, triadMainVars>>

\* the body runs at (ci, cj) and the nest moves on; a body that would touch
\* an index outside the grid ends the model of the call
StencilCell ==
  /\ kpc = "run"
  /\ IF CellFaults(KernelTable(star, radius), n, ci, cj)
     THEN /\ kpc' = "fault"
          /\ UNCHANGED <<out, visits, it, jt, ci, cj>>
     ELSE /\ out' = CellUpdate(KernelTable(star, radius), in, out, n, ci, cj)
          /\ visits' = [visits EXCEPT ![CellIndex(n, ci, cj)] = @ + 1]
          /\ GoTo(NextPosition(<<it, jt, ci, cj>>, n, radius, tile_size))
  /\ UNCHANGED <<star, radius, tile_size, in, in0, out0, norm, out64,
                 stencil>>
  /\ UNCHANGED <<launchVars, A, B, C, unitVars, mainVars, triadMainVars>>

NextStencilKernel ==
  \/ StencilEnter
  \/ StencilCell

SpecStencilKernel == InitStencilKernel /\ [][NextStencilKernel]_vars

\* calls with a tile size within MaxTile of INT_MAX
InitStencilWide ==
  /\ star \in BOOLEAN
  /\ radius \in 1 .. 5
  /\ n \in 2 * radius + 1 .. 2 * radius + 1 + MaxExtra
  /\ tile_size \in {IntMax - k : k \in 0 .. MaxTile}
  /\ in \in {[c \in 0 .. n * n - 1 |-> (c \div n) + (c % n)],
             [c \in 0 .. n * n - 1 |-> 1],
             [c \in 0 .. n * n - 1 |-> (c * c) % 7]}
  /\ out \in {[c \in 0 .. n * n - 1 |-> NumZero],
              [c \in 0 .. n * n - 1 |-> NumOf(c + 1)]}
  /\ kpc = "idle"
  /\ it = 0 /\ jt = 0 /\ ci = 0 /\ cj = 0
  /\ visits = [c \in 0 .. n * n - 1 |-> 0]
  /\ in0 = in /\ out0 = out
  /\ out64 = <<>>
  /\ norm = <<>> /\ stencil = "none"
  /\ NoMain /\ NoTriadMain /\ NoTriad /\ NoUnits

SpecStencilWide == InitStencilWide /\ [][NextStencilKernel]_vars

(***************************************************************************)
(* SpecStencilKernel64: one call of a kernel, followed both in the exact   *)
(* value of what the body adds up and in the doubles the body computes,    *)
(* the sum taken from left to right as the expression is written.          *)
(***************************************************************************)
InitStencilKernel64 ==
  /\ star \in BOOLEAN
  /\ radius \in 1 .. 5
  /\ n \in 2 * radius + 1 .. 2 * radius + 1 + MaxExtra64
  /\ tile_size \in 1 .. MaxTile64
  /\ in \in {[c \in 0 .. n * n - 1 |-> (c \div n) + (c % n)],
             [c \in 0 .. n * n - 1 |-> 1]}
  /\ out = [c \in 0 .. n * n - 1 |-> NumZero]
  /\ out64 = [c \in 0 .. n * n - 1 |-> DOfNum(out[c])]
  /\ kpc = "idle"
  /\ it = 0 /\ jt = 0 /\ ci = 0 /\ cj = 0
  /\ visits = [c \in 0 .. n * n - 1 |-> 0]
  /\ in0 = in /\ out0 = out
  /\ norm = <<>> /\ stencil = "none"
  /\ NoMain /\ NoTriadMain /\ NoTriad /\ NoUnits

\* the body runs at (ci, cj) and the nest moves on
StencilCell64 ==
  /\ kpc = "run"
  /\ out64 # <<>>
  /\ IF CellFaults(KernelTable(star, radius), n, ci, cj)
     THEN /\ kpc' = "fault"
          /\ UNCHANGED <<out, out64, visits, it, jt, ci, cj>>
     ELSE /\ out' = CellUpdate(KernelTable(star, radius), in, out, n, ci, cj)
          /\ out64' = CellUpdate64(KernelTable(star, radius),
                                  KernelTable64(star, radius), in, out64,
                                  n, ci, cj)
          /\ visits' = [visits EXCEPT ![CellIndex(n, ci, cj)] = @ + 1]
          /\ GoTo(NextPosition(<<it, jt, ci, cj>>, n, radius, tile_size))
  /\ UNCHANGED <<star, radius, tile_size, in, in0, out0, norm, stencil>>
  /\ UNCHANGED <<launchVars, A, B, C, unitVars, mainVars, triadMainVars>>

NextStencilKernel64 ==
  \/ StencilEnter
  \/ StencilCell64

SpecStencilKernel64 == InitStencilKernel64 /\ [][NextStencilKernel64]_vars

Epsilon == <<0, 0, 100, 0>>

\* |c| is 1/denom within 1e-8 relative: | |c| * denom - 1 | <= 1e-8
NearReciprocal(c, denom) ==
  ~NumLess(Epsilon, NumAbs(NumSub(NumTimes(NumAbs(c), denom), NumOf(1))))

\* the terms of a table at offset (di, dj)
TermsAt(tab, di, dj) == {k \in 1 .. Len(tab) : tab[k][1] = di /\ tab[k][2] = dj}

\* in the star table in use, the neighbours at distance d = 1..r along either
\* axis have one term each, of magnitude 1/(f*d*r) within 1e-8 relative,
\* negative at i-d and j-d and positive at i+d and j+d
StarWeights(f) ==
  (pc = "none" /\ star) =>
    LET tab == KernelTable(star, radius)
    IN  \A d \in 1 .. radius :
          /\ \A off \in {<<0 - d, 0>>, <<0, 0 - d>>} :
               /\ Cardinality(TermsAt(tab, off[1], off[2])) = 1
               /\ \A k \in TermsAt(tab, off[1], off[2]) :
                    /\ NumLess(tab[k][3], NumZero)
                    /\ NearReciprocal(tab[k][3], f * d * radius)
          /\ \A off \in {<<d, 0>>, <<0, d>>} :
               /\ Cardinality(TermsAt(tab, off[1], off[2])) = 1
               /\ \A k \in TermsAt(tab, off[1], off[2]) :
                    /\ NumLess(NumZero, tab[k][3])
                    /\ NearReciprocal(tab[k][3], f * d * radius)

\* C8, as claimed: the coefficient of a star kernel of radius r at distance d
\* has magnitude 1/(4*d*r) within 1e-8 relative, negative before the centre
\* and positive after it.
C8_StarWeightsQuarter == StarWeights(4)

\* C8, amended: the magnitude is 1/(2*d*r) within 1e-8 relative, negative
\* before the centre and positive after it.
C8_StarWeightsHalf == StarWeights(2)

C8_Witness ==
  /\ pc = "none" /\ kpc = "done"
  /\ star /\ radius = 3
  /\ \A c \in Interior(n, radius) : visits[c] = 1
  /\ \E k \in TermsAt(KernelTable(star, radius), 0, 0 - 2) :
       /\ NumLess(KernelTable(star, radius)[k][3], NumZero)
       /\ NearReciprocal(KernelTable(star, radius)[k][3], 2 * 2 * 3)
       /\ ~NearReciprocal(KernelTable(star, radius)[k][3], 4 * 2 * 3)

\* the sum of the coefficients of a table, added from left to right
TableSum(tab) ==
  LET RECURSIVE Range(_, _, _)
      Range(acc, lo, hi) ==
        IF lo > hi \/ acc = <<>> THEN acc
        ELSE IF lo = hi THEN NumAdd(acc, tab[lo][3])
        ELSE Range(Range(acc, lo, (lo + hi) \div 2), ((lo + hi) \div 2) + 1, hi)
  IN  Range(NumZero, 1, Len(tab))

ConstantField(grid) == \A c \in DOMAIN grid : grid[c] = grid[0]

\* the double out held before the call
Before64(c) == DOfNum(out0[c])

\* a double of magnitude below 2^-50
Tiny(d) == d[1] = 0 \/ d[3] + Precision <= 0 - 50

BoxOffsets(r) == (0 - r .. r) \X (0 - r .. r)

\* C10, as claimed: a grid kernel of radius r has a term with a nonzero
\* coefficient for every offset of the box but the centre, (2r+1)^2 - 1 terms.
C10_FullBox ==
  (pc = "none" /\ ~star) =>
    LET tab == KernelTable(star, radius)
    IN  /\ Len(tab) = (2 * radius + 1) * (2 * radius + 1) - 1
        /\ \A off \in BoxOffsets(radius) \ {<<0, 0>>} :
             \E k \in TermsAt(tab, off[1], off[2]) : tab[k][3] # NumZero

\* C10, amended: a grid kernel of radius r has one term, with a nonzero
\* coefficient, for every offset (di,dj) of the box with di + dj # 0, and no
\* term for the centre and the 2r other offsets with di + dj = 0:
\* (2r+1)^2 - 1 - 2r terms.
C10_BoxButAntidiagonal ==
  (pc = "none" /\ ~star) =>
    LET tab == KernelTable(star, radius)
    IN  /\ Len(tab) = (2 * radius + 1) * (2 * radius + 1) - 1 - 2 * radius
        /\ \A k \in 1 .. Len(tab) : <<tab[k][1], tab[k][2]>> \in BoxOffsets(radius)
        /\ \A off \in BoxOffsets(radius) :
             IF off[1] + off[2] = 0
             THEN TermsAt(tab, off[1], off[2]) = {}
             ELSE /\ Cardinality(TermsAt(tab, off[1], off[2])) = 1
                  /\ \A k \in TermsAt(tab, off[1], off[2]) : tab[k][3] # NumZero

C10_Witness ==
  /\ pc = "none" /\ kpc = "done"
  /\ ~star /\ radius = 3
  /\ \A c \in Interior(n, radius) : visits[c] = 1
  /\ Len(KernelTable(star, radius)) = 42
  /\ TermsAt(KernelTable(star, radius), 2, 0 - 2) = {}
  /\ TermsAt(KernelTable(star, radius), 2, 0 - 1) # {}


(***************************************************************************)
(* main() of stencil-dpcpp.cc.  The kernels star1 .. star5 it selects are  *)
(* those of the table file, called with t = tile_size.  out holds the      *)
(* exact value of what the kernels add up.                                 *)
(***************************************************************************)
\* int has half the bits of size_t (32 and 64 in the build)
ScaledIntBits == SizeBits \div 2

ToSizeOfInt(v) == v % 2^ScaledIntBits

\* a value stored into a size_t
ToSize(v) == v % 2^SizeBits

\* prk::get_max_matrix_size
get_max_matrix_size == 46340

\* tile_size = 32
DefaultTile == 32

\* size_t radius = 2
DefaultRadius == 2

\* n = std::atoi(argv[2])
ParsedDimension(av) == ToSize(atoi(av[2]))

\* tile_size as the try block leaves it
ParsedTile(ac, av, dim) ==
  IF ac > 3
  THEN LET t  == ToSize(atoi(av[3]))
           t1 == IF t <= 0 THEN dim ELSE t
       IN  IF t1 > dim THEN dim ELSE t1
  ELSE DefaultTile

\* star = (stencil == grid) ? false : true
ParsedStar(ac, av) == IF ac > 4 THEN av[4] # <<"g", "r", "i", "d">> ELSE TRUE

\* radius as the try block leaves it
ParsedRadius(ac, av) == IF ac > 5 THEN ToSize(atoi(av[5])) ELSE DefaultRadius

RadiusRejectedLate(r, dim) == r < 1 \/ ToSize(2 * r) > dim

\* (radius < 1) || (2*radius+1 > n)
RadiusRejected(r, dim) == r < 1 \/ ToSize(2 * r + 1) > dim

\* the positions of argv the try block reads when it gets past n
StencilArgsRead(ac) == {k \in 1 .. 5 : k < ac}

\* prk::Abort(): the run ends where it is called
prk_Abort == "aborted"

\* the selection with the switch of the box kernels compiled in
SelectStencilBoxes(isStar, r) ==
  IF r \in 1 .. 5
  THEN CASE r = 1 -> IF isStar THEN "star1" ELSE "grid1"
         [] r = 2 -> IF isStar THEN "star2" ELSE "grid2"
         [] r = 3 -> IF isStar THEN "star3" ELSE "grid3"
         [] r = 4 -> IF isStar THEN "star4" ELSE "grid4"
         [] r = 5 -> IF isStar THEN "star5" ELSE "grid5"
  ELSE "nothing"

\* auto stencil = nothing<double>; if (star) switch (radius) ...
SelectStencil(isStar, r) ==
  IF isStar /\ r \in 1 .. 5
  THEN CASE r = 1 -> "star1" [] r = 2 -> "star2" [] r = 3 -> "star3"
         [] r = 4 -> "star4" [] r = 5 -> "star5"
  ELSE "nothing"

\* norm += prk::abs(h_out[i*n+j]) over i, j = radius .. n-radius-1
\* (Cols adds the cells j = lo .. hi of row i to acc, Rows the rows lo .. hi)
NormSum(res, dim, r) ==
  LET RECURSIVE Cols(_, _, _, _)
      Cols(acc, i, lo, hi) ==
        IF lo > hi \/ acc = <<>> THEN acc
        ELSE IF lo = hi THEN NumAdd(acc, NumAbs(res[CellIndex(dim, i, lo)]))
        ELSE Cols(Cols(acc, i, lo, (lo + hi) \div 2), i,
                  ((lo + hi) \div 2) + 1, hi)
      RECURSIVE Rows(_, _, _)
      Rows(acc, lo, hi) ==
        IF lo > hi \/ acc = <<>> THEN acc
        ELSE IF lo = hi THEN Cols(acc, lo, r, dim - r - 1)
        ELSE Rows(Rows(acc, lo, (lo + hi) \div 2), ((lo + hi) \div 2) + 1, hi)
  IN  Rows(NumZero, r, dim - r - 1)

\* active_points
ActivePoints(dim, r) == (dim - 2 * r) * (dim - 2 * r)

StencilFailsUnlessEqual(sum, points, its) ==
  sum # NumOf(2 * (its + 1) * points)

\* prk::abs(norm-reference_norm) > epsilon, with norm the sum divided by
\* active_points and reference_norm = 2.*(iterations+1.); both sides are
\* multiplied by active_points
StencilFails(sum, points, its) ==
  NumLess(NumTimes(Epsilon, points),
          NumAbs(NumSub(sum, NumOf(2 * (its + 1) * points))))

\* a command line of ac words drawn from the given arguments
InitStencilArgs(acs, itArgs, dimArgs, tileArgs, radiusArgs) ==
  /\ argc \in acs
  /\ \E a1 \in itArgs, a2 \in dimArgs, a3 \in tileArgs, a5 \in radiusArgs,
        a4 \in {<<"s", "t", "a", "r">>, <<"g", "r", "i", "d">>} :
       argv = [k \in 0 .. argc |->
                 IF k = argc THEN NullPtr
                 ELSE IF k > 5 THEN <<"x">>
                 ELSE <<<<"s", "t", "e", "n", "c", "i", "l">>,
                        a1, a2, a3, a4, a5>>[k + 1]]
  /\ argRead = {}
  /\ pc = "parse"
  /\ iterations = 0 /\ iter = 0
  /\ timer = "idle" /\ kernels = 0 /\ timed = 0
  /\ exitCode = -1 /\ output = {} /\ outstanding = {}
  /\ NoTriadMain /\ NoTriad /\ NoUnits
  /\ n = 0
  /\ star = TRUE /\ radius = DefaultRadius /\ tile_size = 0
  /\ in = <<>> /\ out = <<>> /\ out64 = <<>>
  /\ kpc = "idle" /\ it = 0 /\ jt = 0 /\ ci = 0 /\ cj = 0 /\ visits = <<>>
  /\ in0 = <<>> /\ out0 = <<>> /\ norm = <<>> /\ stencil = "none"

InitStencilMain ==
  InitStencilArgs(1 .. MaxStencilArgc,
                  {Numeral(k) : k \in 0 .. MaxIterations} \cup {<<"-", "1">>},
                  {Numeral(k) : k \in 0 .. MaxGrid}
                    \cup {<<"-", "1">>, Numeral(get_max_matrix_size + 1)},
                  {<<"0">>, <<"2">>, <<"4", "0">>},
                  {Numeral(k) : k \in 0 .. 6} \cup {<<"-", "1">>})

StencilUsage ==
  /\ pc = "parse"
  /\ outstanding' = {}
  /\ argc < 3
  /\ pc' = "exit" /\ exitCode' = 1 /\ output' = output \cup {"usage"}
  /\ UNCHANGED <<argc, argv, argRead, iterations, iter, timer, kernels, timed>>
  /\ UNCHANGED <<launchVars, A, B, C, unitVars, triadMainVars, stencilVars>>

StencilBadIterations ==
  /\ pc = "parse"
  /\ outstanding' = {}
  /\ argc >= 3
  /\ IterationsRejected(atoi(argv[1]))
  /\ iterations' = atoi(argv[1])
  /\ argRead' = argRead \cup {1}
  /\ pc' = "exit" /\ exitCode' = 1 /\ output' = output \cup {"bad iterations"}
  /\ UNCHANGED <<argc, argv, iter, timer, kernels, timed>>
  /\ UNCHANGED <<launchVars, A, B, C, unitVars, triadMainVars, stencilVars>>

\* n < 1, or n > prk::get_max_matrix_size()
StencilBadDimension ==
  /\ pc = "parse"
  /\ outstanding' = {}
  /\ argc >= 3
  /\ ~IterationsRejected(atoi(argv[1]))
  /\ ParsedDimension(argv) < 1 \/ ParsedDimension(argv) > get_max_matrix_size
  /\ iterations' = atoi(argv[1])
  /\ n' = ParsedDimension(argv)
  /\ argRead' = argRead \cup {1, 2}
  /\ pc' = "exit" /\ exitCode' = 1
  /\ output' = output \cup {IF n' < 1 THEN "bad dimension"
                            ELSE "dimension too large"}
  /\ UNCHANGED <<argc, argv, iter, timer, kernels, timed>>
  /\ UNCHANGED <<kernel, scalar, groupRange, localRange, interleave>>
  /\ UNCHANGED <<A, B, C, unitVars, triadMainVars, stencilVars>>

\* the rest of the try block, up to the test of the radius
StencilParseRest ==
  /\ pc = "parse"
  /\ outstanding' = {}
  /\ argc >= 3
  /\ ~IterationsRejected(atoi(argv[1]))
  /\ ParsedDimension(argv) >= 1
  /\ ParsedDimension(argv) <= get_max_matrix_size
  /\ iterations' = atoi(argv[1])
  /\ n' = ParsedDimension(argv)
  /\ tile_size' = ParsedTile(argc, argv, n')
  /\ star' = ParsedStar(argc, argv)
  /\ radius' = ParsedRadius(argc, argv)
  /\ argRead' = argRead \cup StencilArgsRead(argc)
  /\ UNCHANGED <<argc, argv, iter, timer, kernels, timed>>
  /\ UNCHANGED <<kernel, scalar, groupRange, localRange, interleave>>
  /\ UNCHANGED <<A, B, C, unitVars, triadMainVars>>
  /\ UNCHANGED <<in, out, out64, kpc, it, jt, ci, cj, visits, in0, out0, norm>>

StencilBadRadius ==
  /\ StencilParseRest
  /\ RadiusRejected(radius', n')
  /\ pc' = "exit" /\ exitCode' = 1 /\ output' = output \cup {"bad radius"}
  /\ UNCHANGED stencil

\* the arguments are accepted and the kernel is selected
StencilParsed ==
  /\ StencilParseRest
  /\ ~RadiusRejected(radius', n')
  /\ stencil' = SelectStencil(star', radius')
  /\ pc' = "alloc"
  /\ UNCHANGED <<exitCode, output>>

\* the grids and the kernel that initialises them
StencilAllocate ==
  /\ pc = "alloc"
  /\ outstanding' = {"fill"}
  /\ in' = [c \in 0 .. n * n - 1 |-> (c \div n) + (c % n)]
  /\ out' = [c \in 0 .. n * n - 1 |-> NumZero]
  /\ iter' = 0
  /\ pc' = "loop"
  /\ UNCHANGED <<argc, argv, argRead, iterations, timer, kernels, timed,
                 exitCode, output>>
  /\ UNCHANGED <<launchVars, A, B, C, unitVars, triadMainVars>>
  /\ UNCHANGED <<star, radius, tile_size, out64, kpc, it, jt, ci, cj, visits,
                 in0, out0, norm, stencil>>

\* the first half of a body of the loop: the timer starts at iter 1, the
\* kernel is called and waited for
StencilApply ==
  /\ pc = "loop"
  /\ outstanding' = {"kernel"}
  /\ LoopRuns(iter, iterations)
  /\ stencil # "nothing"
  /\ timer' = IF TimerStarts(iter) THEN "running" ELSE timer
  /\ out' = KernelCall(star, radius, n, tile_size, in, out)
  /\ kernels' = kernels + 1
  /\ timed' = IF timer' = "running" THEN timed + 1 ELSE timed
  /\ pc' = "perturb"
  /\ UNCHANGED <<argc, argv, argRead, iterations, iter, exitCode, output>>
  /\ UNCHANGED <<launchVars, A, B, C, unitVars, triadMainVars>>
  /\ UNCHANGED <<star, radius, tile_size, in, out64, kpc, it, jt, ci, cj,
                 visits, in0, out0, norm, stencil>>

\* the call of nothing<double>: the message and prk::Abort()
StencilNothing ==
  /\ pc = "loop"
  /\ outstanding' = {}
  /\ LoopRuns(iter, iterations)
  /\ stencil = "nothing"
  /\ timer' = IF TimerStarts(iter) THEN "running" ELSE timer
  /\ output' = output \cup {"no stencil"}
  /\ pc' = prk_Abort
  /\ UNCHANGED <<argc, argv, argRead, iterations, iter, kernels, timed,
                 exitCode>>
  /\ UNCHANGED <<launchVars, A, B, C, unitVars, triadMainVars, stencilVars>>

StencilPerturbWhenTimed ==
  /\ pc = "perturb"
  /\ outstanding' = {"perturb"}
  /\ in' = [c \in 0 .. n * n - 1 |-> IF timer = "running" THEN in[c] + 1 ELSE in[c]]
  /\ iter' = iter + 1
  /\ pc' = "loop"
  /\ UNCHANGED <<argc, argv, argRead, iterations, timer, kernels, timed,
                 exitCode, output>>
  /\ UNCHANGED <<launchVars, A, B, C, unitVars, triadMainVars>>
  /\ UNCHANGED <<star, radius, tile_size, out, out64, kpc, it, jt, ci, cj,
                 visits, in0, out0, norm, stencil>>

\* the second half: d_in[i*n+j] += 1 on every cell, waited for
StencilPerturb ==
  /\ pc = "perturb"
  /\ outstanding' = {"perturb"}
  /\ in' = [c \in 0 .. n * n - 1 |-> in[c] + 1]
  /\ iter' = iter + 1
  /\ pc' = "loop"
  /\ UNCHANGED <<argc, argv, argRead, iterations, timer, kernels, timed,
                 exitCode, output>>
  /\ UNCHANGED <<launchVars, A, B, C, unitVars, triadMainVars>>
  /\ UNCHANGED <<star, radius, tile_size, out, out64, kpc, it, jt, ci, cj,
                 visits, in0, out0, norm, stencil>>

\* the loop ends: the timer stops and the grids are copied to the host, by
\* two q.memcpy submitted one after the other and one q.wait() for both
StencilFinish ==
  /\ pc = "loop"
  /\ outstanding' = {"memcpy h_in", "memcpy h_out"}
  /\ ~LoopRuns(iter, iterations)
  /\ timer' = "stopped"
  /\ pc' = "verify"
  /\ UNCHANGED <<argc, argv, argRead, iterations, iter, kernels, timed,
                 exitCode, output>>
  /\ UNCHANGED <<launchVars, A, B, C, unitVars, triadMainVars, stencilVars>>

\* the norm and the verdict
StencilVerify ==
  /\ pc = "verify"
  /\ outstanding' = {}
  /\ norm' = NormSum(out, n, radius)
  /\ IF StencilFails(norm', ActivePoints(n, radius), iterations)
     THEN /\ output' = output \cup {"error norm"}
          /\ exitCode' = 1
     ELSE /\ output' = output \cup {"validates", "rate"}
          /\ exitCode' = 0
  /\ pc' = "exit"
  /\ UNCHANGED <<argc, argv, argRead, iterations, iter, timer, kernels, timed>>
  /\ UNCHANGED <<launchVars, A, B, C, unitVars, triadMainVars>>
  /\ UNCHANGED <<star, radius, tile_size, in, out, out64, kpc, it, jt, ci, cj,
                 visits, in0, out0, stencil>>

NextStencilMain ==
  \/ StencilUsage
  \/ StencilBadIterations
  \/ StencilBadDimension
  \/ StencilBadRadius
  \/ StencilParsed
  \/ StencilAllocate
  \/ StencilApply
  \/ StencilNothing
  \/ StencilPerturb
  \/ StencilFinish
  \/ StencilVerify

SpecStencilMain == InitStencilMain /\ [][NextStencilMain]_vars

\* the same program on command lines with <# iterations> = LongIterations
InitStencilLong ==
  InitStencilArgs({1, MaxStencilArgc},
                  {Numeral(0), Numeral(1), Numeral(LongIterations)},
                  {Numeral(0), Numeral(3), Numeral(7)},
                  {<<"1">>},
                  {Numeral(0), Numeral(1), Numeral(3)})

SpecStencilLong == InitStencilLong /\ [][NextStencilMain]_vars

\* the same program on command lines whose <radius> runs from INT_MIN to 2
InitStencilRadius ==
  InitStencilArgs(1 .. MaxStencilArgc,
                  {Numeral(0), Numeral(1)},
                  {Numeral(0), Numeral(1), Numeral(3), Numeral(5),
                   Numeral(MaxGrid), Numeral(get_max_matrix_size + 1)},
                  {<<"2">>},
                  {IntNumeral(k) : k \in 0 - 2^(ScaledIntBits - 1) .. 2})

SpecStencilRadius == InitStencilRadius /\ [][NextStencilMain]_vars

\* the grid holds value v in every interior cell and 0 in the others
InteriorHolds(res, dim, r, v) ==
  \A c \in DOMAIN res :
    res[c] = IF c \in Interior(dim, r) THEN NumOf(v) ELSE NumZero

\* C6: in a stencil run with star1 or star2, after k completed bodies of the
\* loop, 0 <= k <= iterations+1, every cell of in holds i+j+k, every interior
\* cell of out holds 2*k and every other cell of out holds 0; between the
\* kernel and the perturbation of body k+1 the interior holds 2*(k+1).
C6_Accumulates ==
  (stencil \in {"star1", "star2"} /\ pc \in {"loop", "perturb", "verify", "exit"})
    => /\ iter >= 0 /\ iter <= iterations + 1
       /\ \A c \in DOMAIN in : in[c] = (c \div n) + (c % n) + iter
       /\ InteriorHolds(out, n, radius,
                        2 * (IF pc = "perturb" THEN iter + 1 ELSE iter))

C6_Witness ==
  /\ stencil = "star2" /\ pc = "loop"
  /\ iterations = 2 /\ iter = 3
  /\ n = 7
  /\ InteriorHolds(out, n, radius, 6)
  /\ in[0] = 3

\* C7: every stencil run with a star kernel of radius 1 .. 5 that gets to the
\* verdict finds the average of |out| over the interior within 1e-8 of
\* 2*(iterations+1), prints that the solution validates and exits with 0.
C7_StencilValidates ==
  (pc = "exit" /\ stencil \in {"star1", "star2", "star3", "star4", "star5"})
    => /\ ~StencilFails(norm, ActivePoints(n, radius), iterations)
       /\ "validates" \in output
       /\ exitCode = 0

\* the run is past the try block of main, where the kernel is selected
StencilAccepted == stencil # "none"

\* C11: a stencil run whose arguments are accepted with shape grid, or with
\* shape star and a radius outside 1 .. 5, has no kernel selected; it gets no
\* further than its first kernel call, where it prints the message of nothing
\* and aborts: no kernel and no perturbation is applied, out stays as it was
\* initialised, and the run never prints that the solution validates.
C11_NoKernelAborts ==
  (StencilAccepted /\ (~star \/ radius \notin 1 .. 5))
    => /\ stencil = "nothing"
       /\ pc \in {"alloc", "loop", prk_Abort}
       /\ iter = 0 /\ kernels = 0
       /\ (pc = prk_Abort) = ("no stencil" \in output)
       /\ "validates" \notin output /\ "rate" \notin output
       /\ exitCode = 0 - 1
       /\ pc # "alloc"
            => /\ \A c \in DOMAIN out : out[c] = NumZero
               /\ \A c \in DOMAIN in : in[c] = (c \div n) + (c % n)

C11_Witness ==
  /\ pc = prk_Abort /\ "no stencil" \in output
  /\ star /\ radius = 6 /\ n = 13
  /\ DOMAIN out = 0 .. n * n - 1

\* C12: the stencil driver allocates the grids and calls a kernel only with
\* radius >= 1 and 2*radius+1 <= n; a command line whose iterations and
\* dimension are accepted and whose radius is >= 1 with 2*radius+1 > n exits
\* with status 1 before anything is allocated (n = 10 with radius 5 among
\* them), and n = 10 with radius 4 is accepted.
C12_RadiusGuard ==
  LET dimArg    == atoi(argv[2])
      radiusArg == IF argc > 5 THEN atoi(argv[5]) ELSE 2
      readable  == /\ pc # "parse" /\ argc >= 3 /\ atoi(argv[1]) >= 1
                   /\ dimArg \in 1 .. get_max_matrix_size
  IN  /\ (StencilAccepted \/ in # <<>> \/ out # <<>> \/ kernels > 0)
           => radius >= 1 /\ 2 * radius + 1 <= n
      /\ (readable /\ radiusArg >= 1 /\ 2 * radiusArg + 1 > dimArg)
           => /\ pc = "exit" /\ exitCode = 1
              /\ "bad radius" \in output
              /\ ~StencilAccepted
              /\ in = <<>> /\ out = <<>> /\ kernels = 0
      /\ (readable /\ dimArg = 10 /\ radiusArg = 4) => StencilAccepted

C12_Witness ==
  /\ pc = "exit" /\ exitCode = 1 /\ "bad radius" \in output
  /\ n = 10 /\ radius = 5 /\ argc = 6
  /\ in = <<>> /\ kernels = 0

\* C13: in every stencil run that reaches the loop of the kernel calls,
\* tile_size <= n, also when no tile_size argument is given and the default
\* 32 is used with a dimension below 32.
C13_TileWithinGrid ==
  (StencilAccepted /\ pc \in {"loop", "perturb"}) => tile_size <= n

(***************************************************************************)
(* Both programs: the executable named by argv[0] runs its main.           *)
(***************************************************************************)
InitDrivers == InitTriadMain \/ InitStencilMain

NextDrivers ==
  \/ argv[0] = <<"n", "s", "t", "r", "e", "a", "m">> /\ NextTriadMain
  \/ argv[0] = <<"s", "t", "e", "n", "c", "i", "l">> /\ NextStencilMain

SpecDrivers == InitDrivers /\ [][NextDrivers]_vars

\* C14: in both drivers the timer is idle through iteration 0, starts after
\* iteration 0 is complete with the kernel of iteration 1, stops only after
\* iteration `iterations` is complete, and exactly `iterations` kernel calls
\* fall between its start and its stop.
C14_Timer ==
  /\ [](/\ timer = "idle" => /\ timed = 0 /\ kernels <= 1 /\ iter <= 1
                             /\ kernels = 1 => pc \in {"loop", "perturb"}
        /\ timer = "running" => /\ iter >= 1 /\ iter <= iterations + 1
                                /\ kernels >= 2 /\ timed = kernels - 1
                                /\ pc \in {"loop", "perturb"}
        /\ timer = "stopped" => /\ iter = iterations + 1
                                /\ kernels = iterations + 1
                                /\ timed = iterations
                                /\ pc \in {"verify", "exit"}
        /\ (pc \in {"loop", "perturb"} /\ iter = 0) => timer = "idle")
  \* the timer only moves from idle to running to stopped; it starts in the
  \* step that submits the kernel of iteration 1, with the whole of iteration
  \* 0 done, and stops in the step that leaves the loop
  /\ [][/\ timer' # timer =>
             \/ /\ timer = "idle" /\ timer' = "running"
                /\ pc = "loop" /\ iter = 1 /\ kernels = 1 /\ kernels' = 2
                /\ timed' = 1
             \/ /\ timer = "running" /\ timer' = "stopped"
                /\ pc = "loop" /\ iter = iterations + 1 /\ kernels' = kernels
        /\ kernels' >= kernels /\ timed' >= timed]_vars

C14_Witness ==
  /\ timer = "stopped" /\ pc = "verify"
  /\ stencil = "star1"
  /\ iterations = 2 /\ iter = 3 /\ kernels = 3 /\ timed = 2

\* both programs, the stencil on its long runs
SpecDriversLong == (InitTriadMain \/ InitStencilLong) /\ [][NextDrivers]_vars

\* C15: a run of either program that gets to its verdict prints the rate and
\* exits with 0 exactly when the observed aggregate is within tolerance of
\* the expected one (|ar - asum| / asum <= 1e-8 for the triad, |norm -
\* 2*(iterations+1)| <= 1e-8 for the stencil); otherwise it prints expected
\* against observed and exits with 1; no run that exits with 1 prints a rate.
C15_Verdict ==
  LET points == (n - 2 * radius) * (n - 2 * radius)
      within ==
        IF StencilAccepted
        THEN ~NumLess(NumTimes(Epsilon, points),
                      NumAbs(NumSub(norm, NumOf(2 * (iterations + 1) * points))))
        ELSE (ar = 0 /\ asum = 0) \/ Abs(ar - asum) <= Abs(asum) \div 10^8
  IN  /\ (pc = "exit" /\ timer = "stopped")
           => /\ (exitCode = 0) = within
              /\ exitCode \in {0, 1}
              /\ ({"validates", "rate"} \subseteq output) = within
              /\ ~within => /\ "rate" \notin output /\ "validates" \notin output
                             /\ \/ "error norm" \in output
                                \/ "failed validation" \in output
      /\ "rate" \in output => exitCode = 0
      /\ exitCode = 0 => pc = "exit" /\ timer = "stopped"

C15_Witness ==
  /\ pc = "exit" /\ exitCode = 1 /\ timer = "stopped"
  /\ stencil = "star3" /\ iterations = LongIterations
  /\ "error norm" \in output /\ "rate" \notin output

\* C16: in both programs a command line whose <# iterations> is below 1
\* ends with status 1 with no array or grid allocated, no kernel run and no
\* perturbation made; whatever is allocated or run has iterations >= 1.
C16_IterationsGuard ==
  LET untouched == /\ A = <<>> /\ B = <<>> /\ C = <<>> /\ h_A = <<>>
                   /\ in = <<>> /\ out = <<>>
                   /\ kernels = 0 /\ iter = 0 /\ timer = "idle"
  IN  /\ (pc # "parse" /\ argc >= 2 /\ atoi(argv[1]) < 1)
           => /\ pc = "exit" /\ exitCode = 1
              /\ untouched
              /\ output = IF argc < 3 THEN {"usage"} ELSE {"bad iterations"}
      /\ ~untouched => iterations >= 1 /\ atoi(argv[1]) = iterations

C16_Witness ==
  /\ pc = "exit" /\ exitCode = 1 /\ output = {"bad iterations"}
  /\ argv[0] = <<"n", "s", "t", "r", "e", "a", "m">>
  /\ argc = 4 /\ argv[1] = <<"0">> /\ argv[2] = <<"3">>
  /\ A = <<>> /\ kernels = 0

\* C17: in a stencil run with a kernel selected, the kernel and the
\* perturbation alternate, the kernel first: each of the iterations+1 bodies
\* calls the kernel once and then adds 1 to every cell of in once; the
\* perturbation of a body is made with the kernel of that body done and in
\* as the kernel read it, and the kernel of the next body is called with
\* every cell of in perturbed once more.
C17_Alternation ==
  /\ []((StencilAccepted /\ stencil # "nothing" /\ pc # "alloc")
          => /\ pc = "loop" => kernels = iter /\ iter <= iterations + 1
             /\ pc = "perturb" => kernels = iter + 1 /\ iter <= iterations
             /\ pc \in {"verify", "exit"}
                  => kernels = iterations + 1 /\ iter = iterations + 1
             /\ \A c \in DOMAIN in : in[c] = (c \div n) + (c % n) + iter)
  /\ [][(StencilAccepted /\ pc # "alloc")
          => /\ kernels' # kernels
                  => /\ pc = "loop" /\ pc' = "perturb"
                     /\ kernels' = kernels + 1 /\ in' = in /\ iter' = iter
             /\ in' # in
                  => /\ pc = "perturb" /\ pc' = "loop"
                     /\ kernels' = kernels /\ out' = out
                     /\ iter' = iter + 1
                     /\ \A c \in DOMAIN in : in'[c] = in[c] + 1]_vars

C17_Witness ==
  /\ pc = "perturb" /\ stencil = "star1"
  /\ iterations = 2 /\ iter = 2 /\ kernels = 3
  /\ in[0] = 2
  /\ out[n + 1] = NumOf(6)

\* C18: in both drivers the host waits after every kernel it submits and
\* after every copy between host and device before it issues the next
\* device operation: no two submitted operations are outstanding together.
C18_OneAtATime == Cardinality(outstanding) <= 1

C21_NonPositiveRadius ==
  (/\ pc # "parse" /\ argc > 5
   /\ atoi(argv[1]) >= 1
   /\ atoi(argv[2]) \in 1 .. get_max_matrix_size
   /\ atoi(argv[5]) <= 0)
    => /\ radius = atoi(argv[5]) % 2^SizeBits
       /\ radius < 1 \/ (2 * radius + 1) % 2^SizeBits > n
       /\ pc = "exit" /\ exitCode = 1 /\ "bad radius" \in output
       /\ stencil = "none"
       /\ in = <<>> /\ out = <<>> /\ kernels = 0

C21_Witness ==
  /\ pc = "exit" /\ exitCode = 1 /\ "bad radius" \in output
  /\ argc = 6 /\ atoi(argv[5]) = 0 - 2^(ScaledIntBits - 1)
  /\ radius = 2^SizeBits - 2^(ScaledIntBits - 1)
  /\ n = MaxGrid
  /\ stencil = "none"

====
